---- MODULE Spec2Model ----
(***************************************************************************)
(* Verification model of the logdog watchdog: the node-driven state        *)
(* machine of LogMonitor (src/src/log_monitor.py) over the declarations    *)
(* loaded by WatchdogConfig (src/src/config.py).                           *)
(*                                                                         *)
(* The module state_machine.py (WatchdogStateMachine) is imported by       *)
(* log_monitor.py and config.py but is not part of the source tree; its    *)
(* five operations are modelled from section 4.3 of the specification.     *)
(* Everything that drives them (entry-node handling, the activation and    *)
(* advancement passes, the timeout pass, the notifier calls and their      *)
(* order) is translated from log_monitor.py.                               *)
(*                                                                         *)
(* Time is a virtual clock: every operation reads the clock once, and the  *)
(* clock never goes backwards.                                             *)
(*                                                                         *)
(* The specifications share the variables:                                 *)
(*   Spec         the state machine under single observations and ticks    *)
(*   SpecTail     the log tailer (_read_new_log_lines) against a writer    *)
(*                that appends bytes and truncates the file                *)
(*   SpecHeal     the tailer against read failures and a log path that     *)
(*                comes and goes                                           *)
(*   SpecThreads  start_monitoring, the monitor thread and the callers of  *)
(*                stop_monitoring, statement by statement (SpecThreadsFair *)
(*                adds the scheduling of the monitor thread)               *)
(*   SpecLoop     whole iterations of _monitor_loop over polls of several  *)
(*                lines                                                    *)
(*   SpecLine     the extraction of a node name from one log line          *)
(*   SpecPair     two runs of the state machine fed the same events at     *)
(*                the same times                                           *)
(*   SpecStart    the start of the service: loading the configuration,     *)
(*                setting up the engine, running it, the exit code         *)
(*   SpecSink     whole iterations with the delivery of each event to the  *)
(*                host (the notifier, or on_event and its actions)         *)
(*   SpecCadence  whole iterations of at most one line, each ending in the *)
(*                timeout pass                                             *)
(*   SpecPool     start_monitoring and stop_monitoring called again and    *)
(*                again by several threads, with the monitor threads they  *)
(*                create                                                   *)
(*   SpecService  WatchdogService.run of main.py with the signals that     *)
(*                reach the process (SpecServiceFair adds the scheduling   *)
(*                of the main thread and of the handlers)                  *)
(*   SpecFallback one notification on its way through the platforms        *)
(*   SpecParsers  one [states] value read by the parser of config.py and   *)
(*                by the parser of config_loader.py                        *)
(* Each specification leaves the variables of the others at their initial  *)
(* values.                                                                 *)
(***************************************************************************)
EXTENDS Integers, Sequences, FiniteSets, TLC

\* Bounds of the model.
MaxTime == 5    \* the virtual clock runs from 0 to MaxTime
MaxStep == 2    \* the clock advances by 0..MaxStep between two operations
MaxFile == 5    \* the log file holds at most MaxFile bytes
MaxBatch == 2   \* a poll returns at most MaxBatch lines
MaxLine == 4    \* a log line holds at most MaxLine tokens
MaxParts == 4   \* a [states] value holds at most MaxParts comma-separated parts
MaxRules == 2   \* a configuration file holds at most MaxRules [states] lines
MaxThreads == 2 \* at most MaxThreads monitor threads are alive at a time
MaxSignals == 2 \* at most MaxSignals shutdown signals reach the process

(***************************************************************************)
(* Declarations: what WatchdogConfig.load_config leaves in                 *)
(* state_machine.states, entry_nodes and completion_nodes.  Four           *)
(* declarations are explored; Init chooses one.                            *)
(*   1  two rules with the same start node, one of them ending in a        *)
(*      completion node; one entry node                                    *)
(*   2  a rule whose start node is its own first target, and a rule whose  *)
(*      start node is its own last target; no entry node                   *)
(*   3  a rule whose start node is the entry node and whose last target is *)
(*      the entry node too, beside an ordinary rule                        *)
(*   4  a rule whose start node is the entry node and its own first target *)
(***************************************************************************)
WatchdogTransition(target, timeout) ==
    [target_node |-> target, timeout_ms |-> timeout]

WatchdogState(name, start, trans) ==
    [name |-> name, start_node |-> start, transitions |-> trans]

EntryNode(name, node) == [name |-> name, node_name |-> node]

CompletionNode(name, node) == [name |-> name, node_name |-> node]

Declarations ==
    << [ states |->
           << WatchdogState("R1", "A", << WatchdogTransition("B", 2),
                                          WatchdogTransition("C", 2) >>),
              WatchdogState("R2", "A", << WatchdogTransition("END", 1) >>) >>,
         entry_nodes |-> << EntryNode("RESET", "Z") >>,
         completion_nodes |-> << CompletionNode("DONE", "END") >>,
         alphabet |-> {"A", "B", "C", "END", "Z", "X"} ],
       [ states |->
           << WatchdogState("R4", "D", << WatchdogTransition("D", 1),
                                          WatchdogTransition("B", 1) >>),
              WatchdogState("R6", "B", << WatchdogTransition("D", 1),
                                          WatchdogTransition("B", 1) >>) >>,
         entry_nodes |-> << >>,
         completion_nodes |-> << >>,
         alphabet |-> {"B", "D", "X"} ],
       [ states |->
           << WatchdogState("R3", "Z", << WatchdogTransition("B", 2),
                                          WatchdogTransition("Z", 2) >>),
              WatchdogState("R5", "A", << WatchdogTransition("B", 1) >>) >>,
         entry_nodes |-> << EntryNode("RESET", "Z") >>,
         completion_nodes |-> << >>,
         alphabet |-> {"A", "B", "Z", "X"} ],
       [ states |->
           << WatchdogState("R7", "Z", << WatchdogTransition("Z", 1),
                                          WatchdogTransition("B", 1) >>) >>,
         entry_nodes |-> << EntryNode("RESET", "Z") >>,
         completion_nodes |-> << >>,
         alphabet |-> {"B", "Z", "X"} ] >>

VARIABLES
    cfg,        \* the declaration in force (index into Declarations), fixed
    now,        \* the clock reading of the last operation
    rt,         \* runtime of every rule: [is_active, current_transition_index,
                \*                         last_advance_time]
    emitted,    \* the notifier calls of the last operation, in call order
    lastOp,     \* the last operation: [kind, node, at]
    prev,       \* history: rt before the last operation
    armed_at,   \* history: per rule, the time of the last observation that
                \* activated, re-activated or advanced it
    activated_at \* history: per rule, the time of the last observation of
                \* its start node (its last activation)

\* The log tailer of LogMonitor: the file on disk and the handle on it.
VARIABLES
    file,       \* the bytes of the log file on disk
    readable,   \* whether the log path exists and can be opened
    log_file,   \* self.log_file: [open, pos]; pos is the handle's position
    returned,   \* history: the lines returned by all polls since the handle
                \* was opened or the file was last truncated, in order
    origin,     \* history: [start, truncated, held], the offset polling
                \* started from, whether the file was ever truncated, and
                \* the bytes after the cursor when it last was (the partial
                \* line held back for a later poll)
    poll        \* the last tailer operation: [kind, lines, before, rotated,
                \*                             could_open]

\* The threads of LogMonitor: the monitor loop and the callers of stop.
VARIABLES
    is_running, \* self.is_running
    stop_event, \* self.stop_event (a threading.Event)
    loop,       \* position of the monitor thread in _monitor_loop
    caller,     \* per calling thread, its position in stop_monitoring
    hist        \* history of the run, read by the properties only

\* The monitor threads of a LogMonitor that is started and stopped again and
\* again, by several threads.
VARIABLES
    starter,    \* per calling thread, its position in start_monitoring
    workers,    \* per thread slot, the position of the monitor thread in it
    monitor_thread, \* self.monitor_thread: the slot of the thread that was
                \* created last (0 stands for None)
    start_hist  \* history: per calling thread, the result of its last call
                \* of start_monitoring and is_running when it entered

\* One iteration of the monitor loop over a batch of lines.
VARIABLES
    sink,       \* the notifier calls of the last iteration, in call order,
                \* each with the line (or tick) that caused it
    iteration   \* the last iteration: [nlines, at]

\* One log line on its way through the node extraction of _process_log_line.
VARIABLES
    raw_line,   \* the line handed to _process_log_line, a sequence of tokens
    extracted   \* what the extraction made of it: [done, node_name]

\* One value of a [states] key on its way through the two parsers.
VARIABLES
    states_value, \* the comma-separated pieces of the value as written, the
                \* surrounding braces still on the first and the last piece
    parsed      \* [done, config_py, config_loader]: the rule each parser
                \* makes of it, or its rejection

\* A second run of the state machine, fed the same observations and ticks.
VARIABLES
    rt2,        \* runtime of every rule in the second run
    emitted2    \* the notifier calls of its last operation, in call order

\* The process of main.py: the configuration it loads and the engine it
\* builds and runs.
VARIABLES
    config,     \* the WatchdogConfig: [log_file_path, states, nlines, malformed]
                \* (nlines and malformed are history: the [states] lines read
                \* and whether one of them was malformed)
    engine,     \* the engine: [constructed, rules, ran]
    proc        \* the process: [pc, outcome, exit_code]

\* The WatchdogService of main.py between its construction and the return of
\* run(), with the signals that reach the process.
VARIABLES
    service,    \* [pc, running, engine]: the position of the main thread,
                \* self.running, and whether self.engine is set
    frames,     \* the calls of shutdown() in progress on the main thread,
                \* innermost last, each at its position ("test", "set", "stop")
    engine_thread, \* "none", "running" (inside engine.run()) or "ended"
    shut        \* history: [requested, signals, stop_calls]

\* The delivery of the events of one loop iteration to the host.
VARIABLES
    host,       \* which host receives the events: "notifier" (LogMonitor with
                \* WatchdogNotifier and config.py) or "callback" (on_event of
                \* main.py with ActionManager and config_loader.py)
    notify_when, \* the NotifyWhen line of the configuration: [given, parts]
    posted,     \* the kinds of the events of the last operation for which a
                \* send to a platform was attempted
    expected,   \* history: [run, events], what the last operation leaves and
                \* calls when every delivery succeeds
    delivery    \* history: [raised, after_raise], whether a platform raised
                \* during the last operation, and during the one before it

\* One notification on its way through the platforms.
VARIABLES
    platforms_conf, \* the [notification] settings: [bot_token, chat_id,
                \* webhook_key, default_ext_notify]
    answers,    \* what a post to each platform does: "ok", "refuses", "raises"
    sent        \* [done, host, order, tried, result]: the order the platforms
                \* are tried in, those posted to, in order, and the result

smVars == << cfg, now, rt, emitted, lastOp, prev, armed_at, activated_at >>
tailVars == << file, readable, log_file, returned, origin, poll >>
poolVars == << starter, workers, monitor_thread, start_hist >>
thrVars == << is_running, stop_event, loop, caller, hist, poolVars >>
loopVars == << sink, iteration >>
parseVars == << states_value, parsed >>
lineVars == << raw_line, extracted, parseVars >>
pairVars == << rt2, emitted2 >>
svcVars == << service, frames, engine_thread, shut >>
startVars == << config, engine, proc, svcVars >>
fbVars == << platforms_conf, answers, sent >>
sinkVars == << host, notify_when, posted, expected, delivery, fbVars >>
hostSide == << lineVars, pairVars, startVars, sinkVars >>

vars == << cfg, now, rt, emitted, lastOp, prev, armed_at, activated_at,
           file, readable, log_file, returned, origin, poll,
           is_running, stop_event, loop, caller, hist,
           starter, workers, monitor_thread, start_hist,
           sink, iteration,
           raw_line, extracted, states_value, parsed,
           rt2, emitted2,
           config, engine, proc,
           service, frames, engine_thread, shut,
           host, notify_when, posted, expected, delivery,
           platforms_conf, answers, sent >>

states == Declarations[cfg].states
entry_nodes == Declarations[cfg].entry_nodes
completion_nodes == Declarations[cfg].completion_nodes
Rules == 1..Len(states)

Flatten(ss) ==
    LET F[i \in 0..Len(ss)] == IF i = 0 THEN << >> ELSE F[i - 1] \o ss[i]
    IN  F[Len(ss)]

(***************************************************************************)
(* Events: one record per notifier call.                                   *)
(***************************************************************************)
Event(kind, state_name, node_name, elapsed_ms) ==
    [kind |-> kind, state_name |-> state_name, node_name |-> node_name,
     elapsed_ms |-> elapsed_ms]

send_state_activated(state_name) ==
    Event("StateActivated", state_name, "", 0)

send_state_completed(state_name, node_name) ==
    Event("StateCompleted", state_name, node_name, 0)

send_state_timeout(state_name, elapsed_ms) ==
    Event("Timeout", state_name, "", elapsed_ms)

send_state_interrupted(state_name, node_name) ==
    Event("StateInterrupted", state_name, node_name, 0)

send_entry_detected(entry_name, node_name) ==
    Event("EntryDetected", entry_name, node_name, 0)

(***************************************************************************)
(* WatchdogConfig: the completion-node set handed to the state machine and *)
(* the entry-node lookup.                                                  *)
(***************************************************************************)
\* Mutant: the completion nodes are never handed to the state machine.
completion_node_names_Empty == {}

completion_node_names ==
    {completion_nodes[i].node_name : i \in 1..Len(completion_nodes)}

\* The first declared entry whose node_name is the node; 0 stands for None.
is_entry_node(node_name) ==
    LET hits == {i \in 1..Len(entry_nodes) : entry_nodes[i].node_name = node_name}
    IN  IF hits = {} THEN 0 ELSE CHOOSE i \in hits : \A j \in hits : i <= j

(***************************************************************************)
(* WatchdogStateMachine (state_machine.py is not in the source tree):      *)
(* modelled from section 4.3 of the specification.  r is one rule's        *)
(* runtime, s its declaration, t the clock reading.                        *)
(***************************************************************************)
IdleRuntime(r) ==
    [is_active |-> FALSE, current_transition_index |-> 0,
     last_advance_time |-> r.last_advance_time]

\* Activation: an Idle rule becomes Active and the call reports it; an Active
\* rule is re-armed silently.
activate_state(s, r, node_name, t) ==
    IF s.start_node = node_name
    THEN [r |-> [is_active |-> TRUE, current_transition_index |-> 0,
                 last_advance_time |-> t],
          activated |-> ~r.is_active]
    ELSE [r |-> r, activated |-> FALSE]

\* Advancement: "none", "advanced" (is_completed = False) or "completed".
check_transition(s, r, node_name, t) ==
    IF r.is_active
       /\ s.transitions[r.current_transition_index + 1].target_node = node_name
    THEN IF r.current_transition_index + 1 < Len(s.transitions)
         THEN [r |-> [is_active |-> TRUE,
                      current_transition_index |-> r.current_transition_index + 1,
                      last_advance_time |-> t],
               result |-> "advanced"]
         ELSE [r |-> IdleRuntime(r), result |-> "completed"]
    ELSE [r |-> r, result |-> "none"]

\* The rules that are Active, in declaration order.
get_active_states(run) ==
    Flatten([i \in Rules |-> IF run[i].is_active THEN << i >> ELSE << >>])

reset_all_states(run) == [i \in Rules |-> IdleRuntime(run[i])]

\* Whether the rule times out at clock reading t.
TimedOut(s, r, t) ==
    /\ r.is_active
    /\ t - r.last_advance_time
         > s.transitions[r.current_transition_index + 1].timeout_ms
    /\ s.transitions[r.current_transition_index + 1].target_node
         \notin completion_node_names

\* on_tick: the rules that timed out (with their elapsed time), each reset.
check_timeouts(run, t) ==
    [run |-> [i \in Rules |->
                IF TimedOut(states[i], run[i], t) THEN IdleRuntime(run[i])
                ELSE run[i]],
     timeouts |-> Flatten([i \in Rules |->
                IF TimedOut(states[i], run[i], t)
                THEN << [rule |-> i, elapsed_ms |-> t - run[i].last_advance_time] >>
                ELSE << >>])]

(***************************************************************************)
(* LogMonitor: the handlers of log_monitor.py.  Each returns the runtime   *)
(* it leaves and the notifier calls it makes, in order.                    *)
(***************************************************************************)
\* Mutant: StateCompleted is sent for every transition check_transition
\* reports, without looking at is_completed.
_check_state_machine_rules_NoCompletedCheck(run, node_name, t) ==
    LET act == [i \in Rules |-> activate_state(states[i], run[i], node_name, t)]
        run1 == [i \in Rules |-> act[i].r]
        activated == Flatten([i \in Rules |->
                        IF act[i].activated
                        THEN << send_state_activated(states[i].name) >>
                        ELSE << >>])
        active == get_active_states(run1)
        chk == [i \in Rules |-> check_transition(states[i], run1[i], node_name, t)]
        isActive(i) == \E k \in 1..Len(active) : active[k] = i
        run2 == [i \in Rules |-> IF isActive(i) THEN chk[i].r ELSE run1[i]]
        completed == Flatten([k \in 1..Len(active) |->
                        IF chk[active[k]].result # "none"
                        THEN << send_state_completed(states[active[k]].name,
                                                     node_name) >>
                        ELSE << >>])
    IN  [run |-> run2, events |-> activated \o completed]

\* Mutant: one loop over the rules that activates and then advances each rule
\* before it goes on to the next.
_check_state_machine_rules_SinglePass(run, node_name, t) ==
    LET act == [i \in Rules |-> activate_state(states[i], run[i], node_name, t)]
        chk == [i \in Rules |->
                  check_transition(states[i], act[i].r, node_name, t)]
    IN  [run |-> [i \in Rules |-> chk[i].r],
         events |-> Flatten([i \in Rules |->
                      (IF act[i].activated
                       THEN << send_state_activated(states[i].name) >>
                       ELSE << >>)
                      \o (IF chk[i].result = "completed"
                          THEN << send_state_completed(states[i].name, node_name) >>
                          ELSE << >>)])]

\* Mutant: the result of check_transition is not looked at: every rule that
\* is Active when the second loop starts is notified as completed.
_check_state_machine_rules_NoResultCheck(run, node_name, t) ==
    LET act == [i \in Rules |-> activate_state(states[i], run[i], node_name, t)]
        run1 == [i \in Rules |-> act[i].r]
        activated == Flatten([i \in Rules |->
                        IF act[i].activated
                        THEN << send_state_activated(states[i].name) >>
                        ELSE << >>])
        active == get_active_states(run1)
        chk == [i \in Rules |-> check_transition(states[i], run1[i], node_name, t)]
        isActive(i) == \E k \in 1..Len(active) : active[k] = i
        run2 == [i \in Rules |-> IF isActive(i) THEN chk[i].r ELSE run1[i]]
        completed == [k \in 1..Len(active) |->
                        send_state_completed(states[active[k]].name, node_name)]
    IN  [run |-> run2, events |-> activated \o completed]

_check_state_machine_rules(run, node_name, t) ==
    LET act == [i \in Rules |-> activate_state(states[i], run[i], node_name, t)]
        run1 == [i \in Rules |-> act[i].r]
        activated == Flatten([i \in Rules |->
                        IF act[i].activated
                        THEN << send_state_activated(states[i].name) >>
                        ELSE << >>])
        active == get_active_states(run1)
        chk == [i \in Rules |-> check_transition(states[i], run1[i], node_name, t)]
        isActive(i) == \E k \in 1..Len(active) : active[k] = i
        run2 == [i \in Rules |-> IF isActive(i) THEN chk[i].r ELSE run1[i]]
        completed == Flatten([k \in 1..Len(active) |->
                        IF chk[active[k]].result = "completed"
                        THEN << send_state_completed(states[active[k]].name,
                                                     node_name) >>
                        ELSE << >>])
    IN  [run |-> run2, events |-> activated \o completed]

\* Mutant: the active rules are notified as interrupted but never reset.
_handle_entry_node_NoReset(entry, run, node_name, t) ==
    LET active == get_active_states(run)
        interrupted == [k \in 1..Len(active) |->
                          send_state_interrupted(states[active[k]].name, node_name)]
        rest == _check_state_machine_rules(run, node_name, t)
    IN  [run |-> rest.run,
         events |-> interrupted
                    \o << send_entry_detected(entry_nodes[entry].name, node_name) >>
                    \o rest.events]

\* Mutant: the active rules are marked inactive and keep their index.
_handle_entry_node_DeactivateOnly(entry, run, node_name, t) ==
    LET active == get_active_states(run)
        interrupted == [k \in 1..Len(active) |->
                          send_state_interrupted(states[active[k]].name, node_name)]
        run1 == [i \in Rules |-> [run[i] EXCEPT !.is_active = FALSE]]
        rest == _check_state_machine_rules(run1, node_name, t)
    IN  [run |-> rest.run,
         events |-> interrupted
                    \o << send_entry_detected(entry_nodes[entry].name, node_name) >>
                    \o rest.events]

_handle_entry_node(entry, run, node_name, t) ==
    LET active == get_active_states(run)
        interrupted == [k \in 1..Len(active) |->
                          send_state_interrupted(states[active[k]].name, node_name)]
        run1 == reset_all_states(run)
        rest == _check_state_machine_rules(run1, node_name, t)
    IN  [run |-> rest.run,
         events |-> interrupted
                    \o << send_entry_detected(entry_nodes[entry].name, node_name) >>
                    \o rest.events]

\* The part of _process_log_line that follows the extraction of node_name.
_process_log_line(run, node_name, t) ==
    LET entry_node == is_entry_node(node_name)
    IN  IF entry_node # 0
        THEN _handle_entry_node(entry_node, run, node_name, t)
        ELSE _check_state_machine_rules(run, node_name, t)

\* Mutant: only the first timed-out rule is notified.
_check_timeouts_FirstOnly(run, t) ==
    LET res == check_timeouts(run, t)
    IN  [run |-> res.run,
         events |-> IF res.timeouts = << >> THEN << >>
                    ELSE << send_state_timeout(states[res.timeouts[1].rule].name,
                                               res.timeouts[1].elapsed_ms) >>]

\* Mutant: the loop runs over the active rules instead of the rules that
\* check_timeouts returned.
_check_timeouts_AllActive(run, t) ==
    LET res == check_timeouts(run, t)
        active == get_active_states(run)
    IN  [run |-> res.run,
         events |-> [k \in 1..Len(active) |->
                       send_state_timeout(states[active[k]].name,
                                          t - run[active[k]].last_advance_time)]]

\* Mutant: every rule whose last_advance_time is overdue is reported and
\* reset, whether it is Active or not.
_check_timeouts_IgnorePhase(run, t) ==
    LET Overdue(i) ==
            /\ t - run[i].last_advance_time
                 > states[i].transitions[run[i].current_transition_index + 1].timeout_ms
            /\ states[i].transitions[run[i].current_transition_index + 1].target_node
                 \notin completion_node_names
    IN  [run |-> [i \in Rules |-> IF Overdue(i) THEN IdleRuntime(run[i])
                                  ELSE run[i]],
         events |-> Flatten([i \in Rules |->
                       IF Overdue(i)
                       THEN << send_state_timeout(states[i].name,
                                                  t - run[i].last_advance_time) >>
                       ELSE << >>])]

_check_timeouts(run, t) ==
    LET res == check_timeouts(run, t)
    IN  [run |-> res.run,
         events |-> [k \in 1..Len(res.timeouts) |->
                       send_state_timeout(states[res.timeouts[k].rule].name,
                                          res.timeouts[k].elapsed_ms)]]

(***************************************************************************)
(* The log tailer.  The file is a sequence of bytes; the handle is opened  *)
(* in text mode with encoding utf-8 and errors='ignore', so read() decodes *)
(* bytes into characters while tell() and seek() count bytes.              *)
(*   "a"  an ASCII letter            "n"  the newline byte                 *)
(*   "H"  the lead byte and "T" the continuation byte of a two-byte        *)
(*        character, which decodes to the character "E"                    *)
(***************************************************************************)
NoFile == [open |-> FALSE, pos |-> 0]

OpenAt(p) == [open |-> TRUE, pos |-> p]

\* TextIOWrapper.read() to end of file under errors='ignore': a lead byte with
\* its continuation byte is one character, a continuation byte without
\* its lead byte and a lead byte without its continuation byte are dropped.
Decode(bytes) ==
    LET D[i \in 1..(Len(bytes) + 1)] ==
            IF i > Len(bytes) THEN << >>
            ELSE IF bytes[i] = "H"
                 THEN IF i < Len(bytes) /\ bytes[i + 1] = "T"
                      THEN << "E" >> \o D[i + 2]
                      ELSE D[i + 1]
            ELSE IF bytes[i] = "T" THEN D[i + 1]
            ELSE << bytes[i] >> \o D[i + 1]
    IN  D[1]

\* content.rfind('\n'), as a 1-based index; 0 when there is no newline.
rfind(content) ==
    LET R[i \in 0..Len(content)] ==
            IF i = 0 THEN 0
            ELSE IF content[i] = "n" THEN i ELSE R[i - 1]
    IN  R[Len(content)]

\* content.split('\n')
split(content) ==
    LET S[i \in 0..Len(content)] ==
            IF i = 0 THEN << << >> >>
            ELSE IF content[i] = "n" THEN Append(S[i - 1], << >>)
            ELSE [S[i - 1] EXCEPT ![Len(S[i - 1])] = Append(@, content[i])]
    IN  S[Len(content)]

\* [line for line in content.split('\n') if line.strip()]
NonBlankLines(content) == SelectSeq(split(content), LAMBDA line : line # << >>)

_cleanup_log_source(lf) == NoFile

\* Opens the path and seeks to its end; leaves the handle as it is when the
\* path does not exist or cannot be opened.
_prepare_log_source(f, rd, lf) ==
    IF rd THEN [log_file |-> OpenAt(Len(f)), ok |-> TRUE]
    ELSE [log_file |-> lf, ok |-> FALSE]

\* Mutant: the rewind before a trailing partial line goes back over the whole
\* content that was read.
ReadBody_RewindAll(f, lf) ==
    LET current_pos == lf.pos
        current_size == Len(f)
        rotated == current_size < current_pos
        from == IF rotated THEN 0 ELSE current_pos
        content == Decode(SubSeq(f, from + 1, current_size))
        tell == current_size
        last_newline == rfind(content)
    IN  IF content = << >>
        THEN [log_file |-> OpenAt(tell), lines |-> << >>, rotated |-> rotated]
        ELSE IF content[Len(content)] = "n"
        THEN [log_file |-> OpenAt(tell), lines |-> NonBlankLines(content),
              rotated |-> rotated]
        ELSE IF last_newline # 0
        THEN [log_file |-> OpenAt(tell - Len(content)),
              lines |-> NonBlankLines(SubSeq(content, 1, last_newline)),
              rotated |-> rotated]
        ELSE [log_file |-> OpenAt(tell - Len(content)), lines |-> << >>,
              rotated |-> rotated]

\* Mutant: a truncation is noticed but the handle is not moved to the start
\* of the file.
ReadBody_NoSeek(f, lf) ==
    LET current_pos == lf.pos
        current_size == Len(f)
        rotated == current_size < current_pos
        content == Decode(SubSeq(f, current_pos + 1, current_size))
        tell == IF rotated THEN current_pos ELSE current_size
        last_newline == rfind(content)
    IN  IF content = << >>
        THEN [log_file |-> OpenAt(tell), lines |-> << >>, rotated |-> rotated]
        ELSE IF content[Len(content)] = "n"
        THEN [log_file |-> OpenAt(tell), lines |-> NonBlankLines(content),
              rotated |-> rotated]
        ELSE IF last_newline # 0
        THEN [log_file |-> OpenAt(tell - (Len(content) - last_newline)),
              lines |-> NonBlankLines(SubSeq(content, 1, last_newline)),
              rotated |-> rotated]
        ELSE [log_file |-> OpenAt(tell - Len(content)), lines |-> << >>,
              rotated |-> rotated]

\* The try block of _read_new_log_lines when nothing raises.
ReadBody(f, lf) ==
    LET current_pos == lf.pos
        current_size == Len(f)
        rotated == current_size < current_pos
        from == IF rotated THEN 0 ELSE current_pos
        content == Decode(SubSeq(f, from + 1, current_size))
        tell == current_size
        last_newline == rfind(content)
    IN  IF content = << >>
        THEN [log_file |-> OpenAt(tell), lines |-> << >>, rotated |-> rotated]
        ELSE IF content[Len(content)] = "n"
        THEN [log_file |-> OpenAt(tell), lines |-> NonBlankLines(content),
              rotated |-> rotated]
        ELSE IF last_newline # 0
        THEN [log_file |-> OpenAt(tell - (Len(content) - last_newline)),
              lines |-> NonBlankLines(SubSeq(content, 1, last_newline)),
              rotated |-> rotated]
        ELSE [log_file |-> OpenAt(tell - Len(content)), lines |-> << >>,
              rotated |-> rotated]

\* _read_new_log_lines: no handle, no lines; an exception in the try block
\* closes the handle and opens the path again.
_read_new_log_lines(f, lf, rd, raises) ==
    IF ~lf.open
    THEN [log_file |-> lf, lines |-> << >>, rotated |-> FALSE]
    ELSE IF raises
    THEN [log_file |-> _prepare_log_source(f, rd, _cleanup_log_source(lf)).log_file,
          lines |-> << >>, rotated |-> FALSE]
    ELSE ReadBody(f, lf)

\* The threads that call stop_monitoring.
(***************************************************************************)
(* Node extraction.  A line is a sequence of tokens, each standing for a   *)
(* piece of text that the substring tests and the patterns treat as a      *)
(* unit:                                                                   *)
(*   "P"  [pipeline_data.name=       "Q"  [PIPELINE_DATA.NAME=             *)
(*   "N"  [node_name=                "x"  a character of a name            *)
(*   "]"  a closing bracket          "_"  a blank                          *)
(*   "E"  |enter                     "C"  |complete                        *)
(*   "L"  list=  (result.name= is treated by the code in the same way)     *)
(* A node name is the sequence of tokens captured; the empty sequence is   *)
(* the empty string.                                                       *)
(***************************************************************************)
Tokens == {"P", "Q", "N", "x", "]", "_", "E", "C", "L"}

Lines == UNION { [1..n -> Tokens] : n \in 0..MaxLine }

NoMatch == [found |-> FALSE, group |-> << >>]

\* str.strip(): blanks are removed at both ends.
RECURSIVE lstrip(_)
lstrip(str) ==
    IF str # << >> /\ Head(str) = "_" THEN lstrip(Tail(str)) ELSE str

RECURSIVE rstrip(_)
rstrip(str) ==
    IF str # << >> /\ str[Len(str)] = "_"
    THEN rstrip(SubSeq(str, 1, Len(str) - 1))
    ELSE str

strip(str) == rstrip(lstrip(str))

\* The position after the blanks that start at position i (\s* is greedy and
\* what follows it in the patterns is not a blank).
RECURSIVE SkipBlanks(_, _)
SkipBlanks(ln, i) ==
    IF i <= Len(ln) /\ ln[i] = "_" THEN SkipBlanks(ln, i + 1) ELSE i

\* pattern.search(line) for the patterns 'start' and 'complete':
\*   \[pipeline_data\.name=(.*?)\]\s*\|\s*enter     (tail "E")
\*   \[pipeline_data\.name=(.*?)\]\s*\|\s*complete  (tail "C")
\* with re.IGNORECASE.  The leftmost opening wins; the lazy group is the
\* shortest one whose closing bracket is followed by the tail.
SearchTail(ln, tail) ==
    LET Closes(s) == {e \in (s + 1)..Len(ln) :
                        /\ ln[e] = "]"
                        /\ SkipBlanks(ln, e + 1) <= Len(ln)
                        /\ ln[SkipBlanks(ln, e + 1)] = tail}
        Opens == {s \in 1..Len(ln) : ln[s] \in {"P", "Q"} /\ Closes(s) # {}}
    IN  IF Opens = {} THEN NoMatch
        ELSE LET s == CHOOSE o \in Opens : \A o2 \in Opens : o <= o2
                 e == CHOOSE c \in Closes(s) : \A c2 \in Closes(s) : c <= c2
             IN  [found |-> TRUE, group |-> SubSeq(ln, s + 1, e - 1)]

node_patterns_start(ln) == SearchTail(ln, "E")

node_patterns_complete(ln) == SearchTail(ln, "C")

\* pattern.search(line) for the pattern 'general':
\*   \[(?:node_name|pipeline_data\.name)=(.*?)\](?!.*(?:list=|result\.name=))
\* with re.IGNORECASE.  The lookahead is tried after each candidate closing
\* bracket and reads the rest of the line from there.
node_patterns_general(ln) ==
    LET Closes(s) == {e \in (s + 1)..Len(ln) :
                        /\ ln[e] = "]"
                        /\ \A k \in (e + 1)..Len(ln) : ln[k] # "L"}
        Opens == {s \in 1..Len(ln) :
                    ln[s] \in {"P", "Q", "N"} /\ Closes(s) # {}}
    IN  IF Opens = {} THEN NoMatch
        ELSE LET s == CHOOSE o \in Opens : \A o2 \in Opens : o <= o2
                 e == CHOOSE c \in Closes(s) : \A c2 \in Closes(s) : c <= c2
             IN  [found |-> TRUE, group |-> SubSeq(ln, s + 1, e - 1)]

\* The three searches in the order of _process_log_line, and the strip of
\* the group of the first one that matches.
MatchNodeName(ln) ==
    LET match == IF node_patterns_start(ln).found THEN node_patterns_start(ln)
                 ELSE IF node_patterns_complete(ln).found
                      THEN node_patterns_complete(ln)
                      ELSE node_patterns_general(ln)
    IN  IF match.found THEN strip(match.group) ELSE << >>

\* 'pipeline_data.name' in line or 'node_name' in line: the test is on the
\* characters as written, so the upper-case key does not pass it.
FastCheck(ln) == \E k \in 1..Len(ln) : ln[k] \in {"P", "N"}

\* The extraction part of _process_log_line: the node name, or the empty
\* sequence when the handler returns without one.
ExtractNodeName(ln) ==
    IF ln = << >> THEN << >>
    ELSE IF ~FastCheck(ln) THEN << >>
    ELSE MatchNodeName(ln)

(***************************************************************************)
(* WatchdogConfig of config_loader.py: the [states] lines of the           *)
(* configuration file.  A value is the sequence of its comma-separated     *)
(* parts after the braces are removed and every part is stripped.  A part  *)
(* is a piece of text: "A" is a word (a node name or a description), "2"   *)
(* and "0" are the decimal texts of the integers 2 and 0.                  *)
(***************************************************************************)
Parts == {"A", "2", "0"}

Values == UNION { [1..n -> Parts] : n \in 1..MaxParts }

\* int(part) raises ValueError unless the part is the text of an integer.
IsIntText(part) == part \in {"2", "0"}

int(part) == IF part = "2" THEN 2 ELSE 0

WatchdogConfig ==
    [log_file_path |-> "", states |-> << >>, nlines |-> 0, malformed |-> FALSE]

\* The while loop of _parse over the parts from position idx (positions are
\* counted from 1 here): the transitions collected and the description.
RECURSIVE ParseTransitions(_, _, _)
ParseTransitions(parts, idx, trans) ==
    IF idx > Len(parts) THEN [trans |-> trans, desc |-> << >>]
    ELSE IF ~IsIntText(parts[idx])
         THEN [trans |-> trans, desc |-> SubSeq(parts, idx, Len(parts))]
         ELSE IF idx + 1 <= Len(parts)
              THEN ParseTransitions(parts, idx + 2,
                       Append(trans, << parts[idx + 1], int(parts[idx]) >>))
              ELSE [trans |-> trans, desc |-> << >>]

\* _parse for a line of [states]: self.states after the line k = parts.
_parse_states(conf_states, k, parts) ==
    IF Len(parts) >= 3
    THEN Append(conf_states,
                [name |-> k, start |-> parts[1],
                 trans |-> ParseTransitions(parts, 2, << >>).trans,
                 desc |-> ParseTransitions(parts, 2, << >>).desc])
    ELSE conf_states

(***************************************************************************)
(* The same [states] value read by both parsers.  A value as written is    *)
(* the sequence of its comma-separated pieces, stripped; a value written   *)
(* in braces carries the opening brace on its first piece and the closing  *)
(* brace on its last.  A piece with a brace on it is not the text of an    *)
(* integer, and is a name different from the piece without the brace.      *)
(***************************************************************************)
Opened == ("A" :> "{A") @@ ("2" :> "{2") @@ ("0" :> "{0")
              @@ ("A}" :> "{A}") @@ ("2}" :> "{2}") @@ ("0}" :> "{0}")

Closed == ("A" :> "A}") @@ ("2" :> "2}") @@ ("0" :> "0}")
              @@ ("{A" :> "{A}") @@ ("{2" :> "{2}") @@ ("{0" :> "{0}")

\* str.startswith('{') and str.endswith('}') of a piece.
startswith_brace(piece) == piece \in { Opened[p] : p \in DOMAIN Opened }

endswith_brace(piece) == piece \in { Closed[p] : p \in DOMAIN Closed }

\* piece[1:] of a piece that starts with a brace, piece[:-1] of one that ends
\* with one.
DropFirst(piece) == CHOOSE p \in DOMAIN Opened : Opened[p] = piece

DropLast(piece) == CHOOSE p \in DOMAIN Closed : Closed[p] = piece

\* The value parts written without braces, and in surrounding braces.
InBraces(parts) ==
    [i \in 1..Len(parts) |->
        LET first == IF i = 1 THEN Opened[parts[i]] ELSE parts[i]
        IN IF i = Len(parts) THEN Closed[first] ELSE first]

WrittenValues == Values \cup { InBraces(parts) : parts \in Values }

\* config.py: value[1:-1] when the value starts with '{' and ends with '}',
\* then the split at the commas.
config_py_parts(written) ==
    IF startswith_brace(written[1]) /\ endswith_brace(written[Len(written)])
    THEN [i \in 1..Len(written) |->
             LET first == IF i = 1 THEN DropFirst(written[i]) ELSE written[i]
             IN IF i = Len(written) THEN DropLast(first) ELSE first]
    ELSE written

\* config_loader.py: v.replace('{','').replace('}',''), then the split.
replace_braces(piece) ==
    LET opened == IF startswith_brace(piece) THEN DropFirst(piece) ELSE piece
    IN IF endswith_brace(opened) THEN DropLast(opened) ELSE opened

config_loader_parts(written) ==
    [i \in 1..Len(written) |-> replace_braces(written[i])]

Rejected == [accepted |-> FALSE, start |-> "", trans |-> << >>, desc |-> << >>]

\* The while loop of _parse_state_config over the parts from position i
\* (positions are counted from 1 here): the transitions collected and the
\* description.  A transition is kept as its end node and its timeout_ms.
RECURSIVE StateTransitions(_, _, _)
StateTransitions(parts, i, transitions) ==
    IF i > Len(parts) THEN [trans |-> transitions, desc |-> << >>]
    ELSE IF ~IsIntText(parts[i])
         THEN [trans |-> transitions, desc |-> SubSeq(parts, i, Len(parts))]
         ELSE IF i + 1 <= Len(parts)
              THEN LET has_next_timeout ==
                           i + 2 <= Len(parts) /\ IsIntText(parts[i + 2])
                       appended ==
                           Append(transitions, << parts[i + 1], int(parts[i]) >>)
                   IN IF ~has_next_timeout /\ i + 2 <= Len(parts)
                      THEN [trans |-> appended,
                            desc |-> SubSeq(parts, i + 2, Len(parts))]
                      ELSE StateTransitions(parts, i + 2, appended)
              ELSE [trans |-> transitions, desc |-> << >>]

\* _parse_state_config of config.py for the value written: the state handed
\* to add_state, or the return without one.
_parse_state_config(written) ==
    LET parts == config_py_parts(written)
        loop_end == StateTransitions(parts, 2, << >>)
    IN IF Len(parts) < 3 THEN Rejected
       ELSE IF loop_end.trans = << >> THEN Rejected
       ELSE [accepted |-> TRUE, start |-> parts[1],
             trans |-> loop_end.trans, desc |-> loop_end.desc]

\* _parse of config_loader.py for the same value: the tuple appended to
\* self.states, or nothing.
_parse_states_value(written) ==
    LET appended == _parse_states(<< >>, "R1", config_loader_parts(written))
    IN IF appended = << >> THEN Rejected
       ELSE [accepted |-> TRUE, start |-> appended[1].start,
             trans |-> appended[1].trans, desc |-> appended[1].desc]

NoEngine == [constructed |-> FALSE, rules |-> << >>, ran |-> FALSE]

Callers == {"t1", "t2"}

\* Values of the variables a specification does not use.
SmIdle ==
    /\ cfg = 1
    /\ now = 0
    /\ rt = [i \in Rules |-> [is_active |-> FALSE, current_transition_index |-> 0,
                              last_advance_time |-> 0]]
    /\ emitted = << >>
    /\ lastOp = [kind |-> "init", node |-> "", at |-> 0]
    /\ prev = rt
    /\ armed_at = [i \in Rules |-> 0]
    /\ activated_at = [i \in Rules |-> 0]

TailIdle ==
    /\ file = << >>
    /\ readable = TRUE
    /\ log_file = NoFile
    /\ returned = << >>
    /\ origin = [start |-> 0, truncated |-> FALSE, held |-> 0]
    /\ poll = [kind |-> "init", lines |-> << >>, before |-> 0,
               rotated |-> FALSE, could_open |-> TRUE]

PoolIdle ==
    /\ starter = [c \in Callers |-> "idle"]
    /\ workers = [i \in 1..MaxThreads |-> "none"]
    /\ monitor_thread = 0
    /\ start_hist = [c \in Callers |-> [result |-> "none", was_running |-> FALSE]]

ThrIdle ==
    /\ PoolIdle
    /\ is_running = FALSE
    /\ stop_event = FALSE
    /\ loop = "none"
    /\ caller = [c \in Callers |-> "idle"]
    /\ hist = [stop_done |-> FALSE, late |-> FALSE, noop |-> FALSE,
               counted |-> FALSE, iters_after_set |-> 0]

LoopIdle ==
    /\ sink = << >>
    /\ iteration = [nlines |-> 0, at |-> 0]

ParseIdle ==
    /\ states_value = << >>
    /\ parsed = [done |-> FALSE, config_py |-> Rejected,
                 config_loader |-> Rejected]

LineIdle ==
    /\ raw_line = << >>
    /\ extracted = [done |-> FALSE, node_name |-> << >>]
    /\ ParseIdle

PairIdle ==
    /\ rt2 = [i \in Rules |-> [is_active |-> FALSE, current_transition_index |-> 0,
                               last_advance_time |-> 0]]
    /\ emitted2 = << >>

SvcIdle ==
    /\ service = [pc |-> "init", running |-> FALSE, engine |-> FALSE]
    /\ frames = << >>
    /\ engine_thread = "none"
    /\ shut = [requested |-> FALSE, signals |-> 0, stop_calls |-> 0]

StartIdle ==
    /\ SvcIdle
    /\ config = WatchdogConfig
    /\ engine = NoEngine
    /\ proc = [pc |-> "load", outcome |-> "", exit_code |-> 0 - 1]

FbIdle ==
    /\ platforms_conf = [bot_token |-> FALSE, chat_id |-> FALSE,
                         webhook_key |-> FALSE, default_ext_notify |-> ""]
    /\ answers = [telegram |-> "ok", wechat |-> "ok"]
    /\ sent = [done |-> FALSE, host |-> "", order |-> << >>, tried |-> << >>,
                  result |-> FALSE]

SinkIdle ==
    /\ FbIdle
    /\ host = "notifier"
    /\ notify_when = [given |-> FALSE, parts |-> << >>]
    /\ posted = {}
    /\ expected = [run |-> rt, events |-> << >>]
    /\ delivery = [raised |-> FALSE, after_raise |-> FALSE]

HostIdle == LineIdle /\ PairIdle /\ StartIdle /\ SinkIdle

(***************************************************************************)
(* The state machine driven by node observations and ticks.                *)
(***************************************************************************)
Init ==
    /\ cfg \in 1..Len(Declarations)
    /\ now = 0
    /\ rt = [i \in Rules |-> [is_active |-> FALSE, current_transition_index |-> 0,
                              last_advance_time |-> 0]]
    /\ emitted = << >>
    /\ lastOp = [kind |-> "init", node |-> "", at |-> 0]
    /\ prev = rt
    /\ armed_at = [i \in Rules |-> 0]
    /\ activated_at = [i \in Rules |-> 0]
    /\ TailIdle /\ ThrIdle /\ LoopIdle /\ HostIdle

\* One line carrying node_name is processed at clock reading now + dt.
ObserveNode ==
    \E node_name \in Declarations[cfg].alphabet, dt \in 0..MaxStep :
        LET t == now + dt
            res == _process_log_line(rt, node_name, t)
        IN  /\ t <= MaxTime
            /\ now' = t
            /\ rt' = res.run
            /\ emitted' = res.events
            /\ lastOp' = [kind |-> "node", node |-> node_name, at |-> t]
            /\ prev' = rt
            /\ armed_at' = [i \in Rules |->
                   IF \/ states[i].start_node = node_name
                      \/ /\ res.run[i].is_active
                         /\ res.run[i].current_transition_index
                              # rt[i].current_transition_index
                   THEN t ELSE armed_at[i]]
            /\ activated_at' = [i \in Rules |->
                   IF states[i].start_node = node_name THEN t
                   ELSE activated_at[i]]
            /\ UNCHANGED << cfg, tailVars, thrVars, loopVars, hostSide >>

\* The timeout pass of one loop iteration, at clock reading now + dt.
Tick ==
    \E dt \in 0..MaxStep :
        LET t == now + dt
            res == _check_timeouts(rt, t)
        IN  /\ t <= MaxTime
            /\ now' = t
            /\ rt' = res.run
            /\ emitted' = res.events
            /\ lastOp' = [kind |-> "tick", node |-> "", at |-> t]
            /\ prev' = rt
            /\ UNCHANGED << cfg, armed_at, activated_at, tailVars, thrVars,
                            loopVars, hostSide >>

Next == ObserveNode \/ Tick

Spec == Init /\ [][Next]_vars

(***************************************************************************)
(* The tailer against a writer: bytes are appended one at a time (so every *)
(* split of a line across writes occurs), the file may be truncated to     *)
(* zero, and polls interleave freely with both.  What is written is valid  *)
(* UTF-8: a lead byte is always followed by its continuation byte.         *)
(***************************************************************************)
NoPoll(kind) ==
    [kind |-> kind, lines |-> << >>, before |-> 0, rotated |-> FALSE,
     could_open |-> TRUE]

InitTail ==
    /\ SmIdle /\ ThrIdle /\ LoopIdle /\ HostIdle
    /\ file \in { << >>, << "a", "n" >> }
    /\ readable = TRUE
    /\ log_file = _prepare_log_source(file, TRUE, NoFile).log_file
    /\ returned = << >>
    /\ origin = [start |-> Len(file), truncated |-> FALSE, held |-> 0]
    /\ poll = NoPoll("init")

\* The writer appends one byte.
WriteByte ==
    \E b \in {"a", "n", "H", "T"} :
        /\ Len(file) < MaxFile
        /\ (b = "T") <=> (file # << >> /\ file[Len(file)] = "H")
        /\ file' = Append(file, b)
        /\ poll' = NoPoll("write")
        /\ UNCHANGED << readable, log_file, returned, origin, smVars, thrVars,
                        loopVars, hostSide >>

\* The file is truncated to zero length (log rotation in place).
Truncate ==
    /\ file # << >>
    /\ file' = << >>
    /\ returned' = << >>
    /\ origin' = [start |-> 0, truncated |-> TRUE,
                  held |-> IF log_file.open /\ log_file.pos < Len(file)
                           THEN Len(file) - log_file.pos ELSE 0]
    /\ poll' = NoPoll("truncate")
    /\ UNCHANGED << readable, log_file, smVars, thrVars, loopVars, hostSide >>

\* One call of _read_new_log_lines.
Poll(raises) ==
    LET res == _read_new_log_lines(file, log_file, readable, raises)
    IN  /\ log_file' = res.log_file
        /\ returned' = returned \o res.lines
        /\ poll' = [kind |-> "poll", lines |-> res.lines,
                    before |-> log_file.pos, rotated |-> res.rotated,
                    could_open |-> readable]
        /\ UNCHANGED << file, readable, origin, smVars, thrVars, loopVars, hostSide >>

PollTail == Poll(FALSE)

NextTail == WriteByte \/ Truncate \/ PollTail

SpecTail == InitTail /\ [][NextTail]_vars

(***************************************************************************)
(* The tailer against read failures: any poll may raise inside its try     *)
(* block, and the log path may stop and start being openable.              *)
(***************************************************************************)
PollHeal == \E raises \in BOOLEAN : Poll(raises)

SetReadable ==
    /\ readable' = ~readable
    /\ UNCHANGED << file, log_file, returned, origin, poll, smVars, thrVars,
                    loopVars, hostSide >>

NextHeal == WriteByte \/ PollHeal \/ SetReadable

SpecHeal == InitTail /\ [][NextHeal]_vars

(***************************************************************************)
(* The threads of one run: the owner calls start_monitoring once, the      *)
(* monitor thread runs _monitor_loop, and the threads of Callers call      *)
(* stop_monitoring any number of times.  Every statement that reads or     *)
(* writes shared state is one step.  join(timeout=5) returns when the      *)
(* monitor thread has ended or when the timeout expires, whichever the     *)
(* scheduler and the length of the running iteration decide.               *)
(*   loop:   "none" (no thread), "wait" (in stop_event.wait), "read" (at   *)
(*           the handle test of _read_new_log_lines), "read_body" (in its  *)
(*           try block), "process" (in the loop over the new lines),       *)
(*           "timeouts" (in _check_timeouts), "ended" (loop left)          *)
(*   caller: "idle" (outside stop_monitoring), "set", "join", "cleanup",   *)
(*           "clear" (before the statement of that name)                   *)
(***************************************************************************)
tailRest == << file, readable, returned, origin, poll >>

InitThreads == SmIdle /\ TailIdle /\ ThrIdle /\ LoopIdle /\ HostIdle

start_monitoring ==
    LET src == _prepare_log_source(file, readable, log_file)
    IN  /\ loop = "none"
        /\ ~is_running
        /\ src.ok
        /\ log_file' = src.log_file
        /\ stop_event' = FALSE
        /\ is_running' = TRUE
        /\ loop' = "wait"
        /\ UNCHANGED << caller, hist, tailRest, poolVars, smVars, loopVars, hostSide >>

\* History: a statement of the loop body runs; it belongs to an iteration that
\* is counted once if the stop flag is set while it runs.
InBody(h) ==
    IF stop_event /\ ~h.counted
    THEN [h EXCEPT !.counted = TRUE,
                   !.iters_after_set = IF @ < 2 THEN @ + 1 ELSE @]
    ELSE h

\* Mutant: the loop condition does not look at the stop flag.
LoopWait_IgnoreStop ==
    /\ loop = "wait"
    /\ loop' = "read"
    /\ hist' = [hist EXCEPT !.counted = FALSE]
    /\ UNCHANGED << is_running, stop_event, caller, log_file, tailRest, poolVars, smVars,
                    loopVars, hostSide >>

\* while not self.stop_event.wait(self.config.monitor_interval)
LoopWait ==
    /\ loop = "wait"
    /\ loop' = IF stop_event THEN "ended" ELSE "read"
    /\ hist' = [hist EXCEPT !.counted = FALSE]
    /\ UNCHANGED << is_running, stop_event, caller, log_file, tailRest, poolVars, smVars,
                    loopVars, hostSide >>

\* if not self.log_file: return []
LoopRead ==
    /\ loop = "read"
    /\ loop' = IF log_file.open THEN "read_body" ELSE "timeouts"
    /\ hist' = InBody(hist)
    /\ UNCHANGED << is_running, stop_event, caller, log_file, tailRest, poolVars, smVars,
                    loopVars, hostSide >>

\* The try block of _read_new_log_lines and its except branch.  A handle
\* closed or set to None by another thread since the test makes the first
\* statement raise.  What the writer appended is not followed here: the
\* read returns some lines or none.
LoopReadBody ==
    \E raises \in BOOLEAN, has_lines \in BOOLEAN :
        LET res == _read_new_log_lines(file, OpenAt(log_file.pos), readable,
                                       raises \/ ~log_file.open)
        IN  /\ loop = "read_body"
            /\ log_file' = res.log_file
            /\ loop' = IF ~(raises \/ ~log_file.open) /\ has_lines
                       THEN "process" ELSE "timeouts"
            /\ hist' = InBody(hist)
            /\ UNCHANGED << is_running, stop_event, caller, tailRest, poolVars, smVars,
                            loopVars, hostSide >>

\* for line in new_lines: self._process_log_line(line.strip())
LoopProcess ==
    /\ loop = "process"
    /\ loop' = "timeouts"
    /\ hist' = [InBody(hist) EXCEPT !.late = @ \/ hist.stop_done]
    /\ UNCHANGED << is_running, stop_event, caller, log_file, tailRest, poolVars, smVars,
                    loopVars, hostSide >>

\* self._check_timeouts(): it notifies a timeout or finds none.
LoopTimeouts ==
    \E fires \in BOOLEAN :
        /\ loop = "timeouts"
        /\ loop' = "wait"
        /\ hist' = [InBody(hist) EXCEPT !.late = @ \/ (hist.stop_done /\ fires)]
        /\ UNCHANGED << is_running, stop_event, caller, log_file, tailRest, poolVars,
                        smVars, loopVars, hostSide >>

LoopStep == LoopWait \/ LoopRead \/ LoopReadBody \/ LoopProcess \/ LoopTimeouts

\* Mutant: stop_monitoring without its is_running test.
StopEnter_NoGuard(c) ==
    /\ caller[c] = "idle"
    /\ caller' = [caller EXCEPT ![c] = "set"]
    /\ UNCHANGED << hist, is_running, stop_event, loop, log_file, tailRest, poolVars,
                    smVars, loopVars, hostSide >>

\* if not self.is_running: return False
StopEnter(c) ==
    /\ caller[c] = "idle"
    /\ IF is_running
       THEN /\ caller' = [caller EXCEPT ![c] = "set"]
            /\ UNCHANGED hist
       ELSE /\ hist' = [hist EXCEPT !.noop = @ \/ hist.stop_done]
            /\ UNCHANGED caller
    /\ UNCHANGED << is_running, stop_event, loop, log_file, tailRest, poolVars, smVars,
                    loopVars, hostSide >>

\* self.stop_event.set()
StopSet(c) ==
    /\ caller[c] = "set"
    /\ stop_event' = TRUE
    /\ caller' = [caller EXCEPT ![c] = "join"]
    /\ UNCHANGED << is_running, loop, hist, log_file, tailRest, poolVars, smVars,
                    loopVars, hostSide >>

\* self.monitor_thread.join(timeout=5): it returns with the thread ended or
\* still alive.
StopJoin(c) ==
    /\ caller[c] = "join"
    /\ caller' = [caller EXCEPT ![c] = "cleanup"]
    /\ UNCHANGED << is_running, stop_event, loop, hist, log_file, tailRest, poolVars,
                    smVars, loopVars, hostSide >>

\* self._cleanup_log_source()
StopCleanup(c) ==
    /\ caller[c] = "cleanup"
    /\ log_file' = _cleanup_log_source(log_file)
    /\ caller' = [caller EXCEPT ![c] = "clear"]
    /\ UNCHANGED << is_running, stop_event, loop, hist, tailRest, poolVars, smVars,
                    loopVars, hostSide >>

\* self.is_running = False; return True
StopClear(c) ==
    /\ caller[c] = "clear"
    /\ is_running' = FALSE
    /\ caller' = [caller EXCEPT ![c] = "idle"]
    /\ hist' = [hist EXCEPT !.stop_done = TRUE]
    /\ UNCHANGED << stop_event, loop, log_file, tailRest, poolVars, smVars, loopVars, hostSide >>

stop_monitoring(c) ==
    StopEnter(c) \/ StopSet(c) \/ StopJoin(c) \/ StopCleanup(c) \/ StopClear(c)

NextThreads ==
    \/ start_monitoring
    \/ LoopStep
    \/ \E c \in Callers : stop_monitoring(c)

SpecThreads == InitThreads /\ [][NextThreads]_vars

\* The monitor thread is scheduled: a daemon thread whose statements all
\* return (the wait has a timeout, the reads are non-blocking at end of
\* file, the notifier's requests have timeouts).
SpecThreadsFair == SpecThreads /\ WF_vars(LoopStep)

(***************************************************************************)
(* A LogMonitor that is started and stopped again and again.  Every thread *)
(* of Callers may call start_monitoring and stop_monitoring, one call at a *)
(* time; every statement that reads or writes shared state is one step.    *)
(* Each accepted start creates a monitor thread in a free slot.  A monitor *)
(* thread is in stop_event.wait ("wait") or in the body of its loop        *)
(* ("body"), where it reads the log and drives the state machine; when it  *)
(* leaves the loop its slot is free again ("none").                        *)
(*   starter: "idle" (outside start_monitoring), "prepare", "clear",       *)
(*            "set", "thread" (before the statement of that name)          *)
(***************************************************************************)
Alive == {i \in 1..MaxThreads : workers[i] # "none"}

Starting == {c \in Callers : starter[c] # "idle"}

InitPool == InitThreads

\* if self.is_running: return False.  (No more calls are let in than there
\* are slots for the threads they may create.)
StartEnter(c) ==
    /\ starter[c] = "idle" /\ caller[c] = "idle"
    /\ Cardinality(Alive) + Cardinality(Starting) < MaxThreads
    /\ start_hist' = [start_hist EXCEPT
                         ![c] = [result |-> IF is_running THEN "False" ELSE "none",
                                 was_running |-> is_running]]
    /\ starter' = [starter EXCEPT ![c] = IF is_running THEN "idle" ELSE "prepare"]
    /\ UNCHANGED << workers, monitor_thread, is_running, stop_event, loop,
                    caller, hist, tailVars, smVars, loopVars, hostSide >>

\* if not self._prepare_log_source(): return False
StartPrepare(c) ==
    \E src \in {_prepare_log_source(file, readable, log_file)} :
        /\ starter[c] = "prepare"
        /\ log_file' = src.log_file
        /\ starter' = [starter EXCEPT ![c] = IF src.ok THEN "clear" ELSE "idle"]
        /\ start_hist' = [start_hist EXCEPT
                             ![c].result = IF src.ok THEN @ ELSE "False"]
        /\ UNCHANGED << workers, monitor_thread, is_running, stop_event, loop,
                        caller, hist, tailRest, smVars, loopVars, hostSide >>

\* self.stop_event.clear()
StartClear(c) ==
    /\ starter[c] = "clear"
    /\ stop_event' = FALSE
    /\ starter' = [starter EXCEPT ![c] = "set"]
    /\ UNCHANGED << workers, monitor_thread, start_hist, is_running, loop,
                    caller, hist, tailVars, smVars, loopVars, hostSide >>

\* self.is_running = True
StartSet(c) ==
    /\ starter[c] = "set"
    /\ is_running' = TRUE
    /\ starter' = [starter EXCEPT ![c] = "thread"]
    /\ UNCHANGED << workers, monitor_thread, start_hist, stop_event, loop,
                    caller, hist, tailVars, smVars, loopVars, hostSide >>

\* self.monitor_thread = threading.Thread(...); self.monitor_thread.start();
\* return True
StartThread(c) ==
    \E i \in 1..MaxThreads :
        /\ starter[c] = "thread"
        /\ workers[i] = "none"
        /\ \A j \in 1..(i - 1) : workers[j] # "none"
        /\ workers' = [workers EXCEPT ![i] = "wait"]
        /\ monitor_thread' = i
        /\ starter' = [starter EXCEPT ![c] = "idle"]
        /\ start_hist' = [start_hist EXCEPT ![c].result = "True"]
        /\ UNCHANGED << is_running, stop_event, loop, caller, hist, tailVars,
                        smVars, loopVars, hostSide >>

start_monitoring_steps(c) ==
    \/ StartEnter(c) \/ StartPrepare(c) \/ StartClear(c) \/ StartSet(c)
    \/ StartThread(c)

\* while not self.stop_event.wait(self.config.monitor_interval)
WorkerWait(i) ==
    /\ workers[i] = "wait"
    /\ workers' = [workers EXCEPT ![i] = IF stop_event THEN "none" ELSE "body"]
    /\ UNCHANGED << starter, monitor_thread, start_hist, is_running, stop_event,
                    loop, caller, hist, tailVars, smVars, loopVars, hostSide >>

\* The body of the loop: the poll, the lines, the timeout pass.
WorkerBody(i) ==
    /\ workers[i] = "body"
    /\ workers' = [workers EXCEPT ![i] = "wait"]
    /\ UNCHANGED << starter, monitor_thread, start_hist, is_running, stop_event,
                    loop, caller, hist, tailVars, smVars, loopVars, hostSide >>

\* A statement of stop_monitoring, by a thread that is not inside
\* start_monitoring.
StopStep(c) == starter[c] = "idle" /\ stop_monitoring(c)

NextPool ==
    \/ \E c \in Callers : start_monitoring_steps(c)
    \/ \E i \in 1..MaxThreads : WorkerWait(i) \/ WorkerBody(i)
    \/ \E c \in Callers : StopStep(c)

SpecPool == InitPool /\ [][NextPool]_vars

(***************************************************************************)
(* One iteration of the monitor loop over the lines of one poll.  A line   *)
(* is represented by the node name extracted from it.  Every notifier call *)
(* is recorded with the line that caused it (src: the position of the line *)
(* in the poll, or one more than the number of lines for the timeout pass) *)
(* and its rank k among the calls that source produced.                    *)
(***************************************************************************)
Tag(events, src) ==
    [i \in 1..Len(events) |-> [event |-> events[i], src |-> src, k |-> i]]

\* Mutant: the timeout pass runs before the lines are processed.
_monitor_loop_TimeoutsFirst(run, new_lines, t) ==
    LET P[j \in 0..Len(new_lines)] ==
            IF j = 0
            THEN CHOOSE after \in
                     { [run |-> tick.run,
                        events |-> Tag(tick.events, Len(new_lines) + 1)] :
                       tick \in {_check_timeouts(run, t)} } : TRUE
            ELSE CHOOSE after \in UNION {
                     { [run |-> res.run,
                        events |-> before.events \o Tag(res.events, j)] :
                       res \in {_process_log_line(before.run, new_lines[j], t)} } :
                     before \in {P[j - 1]} } : TRUE
    IN  P[Len(new_lines)]

\* Mutant: the timeout pass is made only when the poll returned lines.
_monitor_loop_TickOnlyWithLines(run, new_lines, t) ==
    LET P[j \in 0..Len(new_lines)] ==
            IF j = 0 THEN [run |-> run, events |-> << >>]
            ELSE CHOOSE after \in UNION {
                     { [run |-> res.run,
                        events |-> before.events \o Tag(res.events, j)] :
                       res \in {_process_log_line(before.run, new_lines[j], t)} } :
                     before \in {P[j - 1]} } : TRUE
    IN  IF new_lines = << >> THEN [run |-> run, events |-> << >>]
        ELSE CHOOSE after \in UNION {
            { [run |-> tick.run,
               events |-> lines.events \o Tag(tick.events, Len(new_lines) + 1)] :
              tick \in {_check_timeouts(lines.run, t)} } :
            lines \in {P[Len(new_lines)]} } : TRUE

\* The body of the while loop of _monitor_loop when nothing raises: the
\* lines in order, each on the runtime the line before it left, then the
\* timeout pass.
_monitor_loop(run, new_lines, t) ==
    LET P[j \in 0..Len(new_lines)] ==
            IF j = 0 THEN [run |-> run, events |-> << >>]
            ELSE CHOOSE after \in UNION {
                     { [run |-> res.run,
                        events |-> before.events \o Tag(res.events, j)] :
                       res \in {_process_log_line(before.run, new_lines[j], t)} } :
                     before \in {P[j - 1]} } : TRUE
    IN  CHOOSE after \in UNION {
            { [run |-> tick.run,
               events |-> lines.events \o Tag(tick.events, Len(new_lines) + 1)] :
              tick \in {_check_timeouts(lines.run, t)} } :
            lines \in {P[Len(new_lines)]} } : TRUE

Batches == UNION { [1..n -> Declarations[cfg].alphabet] : n \in 0..MaxBatch }

\* The declaration with two rules of different start nodes and an entry
\* node is in force.
InitLoop ==
    /\ cfg = 3
    /\ now = 0
    /\ rt = [i \in Rules |-> [is_active |-> FALSE, current_transition_index |-> 0,
                              last_advance_time |-> 0]]
    /\ emitted = << >>
    /\ lastOp = [kind |-> "init", node |-> "", at |-> 0]
    /\ prev = rt
    /\ armed_at = [i \in Rules |-> 0]
    /\ activated_at = [i \in Rules |-> 0]
    /\ TailIdle /\ ThrIdle /\ LoopIdle /\ HostIdle

\* One iteration: the wait of monitor_interval, then the lines, then the
\* timeout pass.  The clock is read once per iteration, one interval after
\* the reading of the iteration before.
Iterate ==
    \E new_lines \in Batches :
        \E res \in {_monitor_loop(rt, new_lines, now + 1)} :
            /\ now + 1 <= MaxTime
            /\ now' = now + 1
            /\ rt' = res.run
            /\ sink' = [i \in 1..Len(res.events) |->
                           [event |-> res.events[i].event,
                            src |-> res.events[i].src,
                            k |-> res.events[i].k,
                            at |-> now + 1]]
            /\ iteration' = [nlines |-> Len(new_lines), at |-> now + 1]
            /\ UNCHANGED << cfg, emitted, lastOp, prev, armed_at, activated_at,
                            tailVars,
                            thrVars, hostSide >>

NextLoop == Iterate

SpecLoop == InitLoop /\ [][NextLoop]_vars

(***************************************************************************)
(* The node extraction applied to every line of at most MaxLine tokens.    *)
(***************************************************************************)
InitLine ==
    /\ raw_line \in Lines
    /\ extracted = [done |-> FALSE, node_name |-> << >>]
    /\ ParseIdle
    /\ SmIdle /\ TailIdle /\ ThrIdle /\ LoopIdle /\ PairIdle /\ StartIdle
    /\ SinkIdle

ProcessLine ==
    /\ ~extracted.done
    /\ extracted' = [done |-> TRUE, node_name |-> ExtractNodeName(raw_line)]
    /\ UNCHANGED << raw_line, parseVars, smVars, tailVars, thrVars, loopVars,
                    pairVars, startVars, sinkVars >>

NextLine == ProcessLine

SpecLine == InitLine /\ [][NextLine]_vars

(***************************************************************************)
(* The two [states] parsers applied to every value of at most MaxParts     *)
(* parts, written without braces or in surrounding braces.                 *)
(***************************************************************************)
InitParsers ==
    /\ states_value \in WrittenValues
    /\ parsed = [done |-> FALSE, config_py |-> Rejected,
                 config_loader |-> Rejected]
    /\ raw_line = << >>
    /\ extracted = [done |-> FALSE, node_name |-> << >>]
    /\ SmIdle /\ TailIdle /\ ThrIdle /\ LoopIdle /\ PairIdle /\ StartIdle
    /\ SinkIdle

ParseStatesValue ==
    /\ ~parsed.done
    /\ parsed' = [done |-> TRUE,
                  config_py |-> _parse_state_config(states_value),
                  config_loader |-> _parse_states_value(states_value)]
    /\ UNCHANGED << states_value, raw_line, extracted, smVars, tailVars,
                    thrVars, loopVars, pairVars, startVars, sinkVars >>

NextParsers == ParseStatesValue

SpecParsers == InitParsers /\ [][NextParsers]_vars

(***************************************************************************)
(* Two runs of the state machine over one declaration.  Both start with    *)
(* every rule Idle and both receive the same node observations and ticks   *)
(* at the same clock readings.  The second run starts from an engine that  *)
(* has been at work before: its Idle rules still hold the                  *)
(* last_advance_time of their earlier activity, up to MaxStep clock units  *)
(* per rule before the first reading.                                      *)
(***************************************************************************)
InitPair ==
    /\ cfg \in 1..Len(Declarations)
    /\ now = 0
    /\ rt = [i \in Rules |-> [is_active |-> FALSE, current_transition_index |-> 0,
                              last_advance_time |-> 0]]
    /\ emitted = << >>
    /\ lastOp = [kind |-> "init", node |-> "", at |-> 0]
    /\ prev = rt
    /\ armed_at = [i \in Rules |-> 0]
    /\ activated_at = [i \in Rules |-> 0]
    /\ \E stale \in 0..MaxStep :
          rt2 = [i \in Rules |-> [is_active |-> FALSE,
                                  current_transition_index |-> 0,
                                  last_advance_time |-> 0 - stale * i]]
    /\ emitted2 = << >>
    /\ TailIdle /\ ThrIdle /\ LoopIdle /\ LineIdle /\ StartIdle /\ SinkIdle

PairObserve ==
    \E node_name \in Declarations[cfg].alphabet, dt \in 0..MaxStep :
        \E res \in {_process_log_line(rt, node_name, now + dt)},
           res2 \in {_process_log_line(rt2, node_name, now + dt)} :
            /\ now + dt <= MaxTime
            /\ now' = now + dt
            /\ rt' = res.run
            /\ emitted' = res.events
            /\ rt2' = res2.run
            /\ emitted2' = res2.events
            /\ lastOp' = [kind |-> "node", node |-> node_name, at |-> now + dt]
            /\ UNCHANGED << cfg, prev, armed_at, activated_at, tailVars, thrVars,
                            loopVars, lineVars, startVars, sinkVars >>

PairTick ==
    \E dt \in 0..MaxStep :
        \E res \in {_check_timeouts(rt, now + dt)},
           res2 \in {_check_timeouts(rt2, now + dt)} :
            /\ now + dt <= MaxTime
            /\ now' = now + dt
            /\ rt' = res.run
            /\ emitted' = res.events
            /\ rt2' = res2.run
            /\ emitted2' = res2.events
            /\ lastOp' = [kind |-> "tick", node |-> "", at |-> now + dt]
            /\ UNCHANGED << cfg, prev, armed_at, activated_at, tailVars, thrVars,
                            loopVars, lineVars, startVars, sinkVars >>

NextPair == PairObserve \/ PairTick

SpecPair == InitPair /\ [][NextPair]_vars

(***************************************************************************)
(* The process of main.py from the load of the configuration file to its   *)
(* exit.  The file is read line by line; a line is a [states] line, the    *)
(* Log_File_Path line of [monitoring], or a Monitor_Interval line whose    *)
(* value float() refuses.  The first [states] line is named R1, a later    *)
(* one R1 or R2.  The engine (_logdog_core) is outside the source tree:    *)
(* its constructor and add_state_rule may raise or not, and its run() may  *)
(* return after a stop or raise.                                           *)
(*   pc: "load" (in WatchdogConfig.load), "initialized" (initialize has    *)
(*       returned True), "running" (_setup_engine has returned True),      *)
(*       "exited"                                                          *)
(***************************************************************************)
InitStart == SmIdle /\ TailIdle /\ ThrIdle /\ LoopIdle /\ HostIdle

Exit(outcome, code) == [pc |-> "exited", outcome |-> outcome, exit_code |-> code]

\* The claim's malformed rule lines: fewer than three parts, a non-integer
\* where the first timeout is expected, or a timeout that no target follows.
RECURSIVE DanglingTimeout(_, _)
DanglingTimeout(parts, idx) ==
    IF idx > Len(parts) \/ ~IsIntText(parts[idx]) THEN FALSE
    ELSE IF idx + 1 <= Len(parts) THEN DanglingTimeout(parts, idx + 2)
    ELSE TRUE

Malformed(parts) ==
    \/ Len(parts) < 3
    \/ ~IsIntText(parts[2])
    \/ DanglingTimeout(parts, 2)

\* os.path.exists(path) is false: load returns False, initialize returns
\* False and main exits with 1.
LoadMissing ==
    /\ proc.pc = "load"
    /\ config = WatchdogConfig
    /\ proc' = Exit("config_missing", 1)
    /\ UNCHANGED << config, engine, smVars, tailVars, thrVars, loopVars,
                    lineVars, pairVars, sinkVars, svcVars >>

\* One [states] line.
LoadStatesLine ==
    /\ proc.pc = "load"
    /\ config.nlines < MaxRules
    /\ \E k \in (IF config.nlines = 0 THEN {"R1"} ELSE {"R1", "R2"}),
          parts \in Values :
            config' = [config EXCEPT
                          !.states = _parse_states(@, k, parts),
                          !.nlines = @ + 1,
                          !.malformed = @ \/ Malformed(parts)]
    /\ UNCHANGED << engine, proc, smVars, tailVars, thrVars, loopVars,
                    lineVars, pairVars, sinkVars, svcVars >>

\* The line Log_File_Path = log of [monitoring].
LoadPathLine ==
    /\ proc.pc = "load"
    /\ config.log_file_path = ""
    /\ config' = [config EXCEPT !.log_file_path = "log"]
    /\ UNCHANGED << engine, proc, smVars, tailVars, thrVars, loopVars,
                    lineVars, pairVars, sinkVars, svcVars >>

\* A Monitor_Interval whose value is not a number: float(v) raises out of
\* load, initialize and main, and the interpreter exits with 1.
LoadRaises ==
    /\ proc.pc = "load"
    /\ proc' = Exit("load_failed", 1)
    /\ UNCHANGED << config, engine, smVars, tailVars, thrVars, loopVars,
                    lineVars, pairVars, sinkVars, svcVars >>

\* The end of the file: load returns True and initialize validates.
initialize ==
    /\ proc.pc = "load"
    /\ proc' = IF config.states = << >> THEN Exit("no_states", 1)
               ELSE [proc EXCEPT !.pc = "initialized"]
    /\ UNCHANGED << config, engine, smVars, tailVars, thrVars, loopVars,
                    lineVars, pairVars, sinkVars, svcVars >>

\* main with --status.
print_config_summary ==
    /\ proc.pc = "initialized"
    /\ proc' = Exit("status", 0)
    /\ UNCHANGED << config, engine, smVars, tailVars, thrVars, loopVars,
                    lineVars, pairVars, sinkVars, svcVars >>

\* run: _setup_engine.  failing = 0: the constructor raises; failing = j in
\* 1..Len(states): add_state_rule raises on rule j; otherwise nothing raises.
_setup_engine ==
    /\ proc.pc = "initialized"
    /\ \E failing \in 0..(Len(config.states) + 1) :
        /\ engine' = IF failing = 0 THEN engine
                     ELSE [constructed |-> TRUE,
                           rules |-> IF failing <= Len(config.states)
                                     THEN SubSeq(config.states, 1, failing)
                                     ELSE config.states,
                           ran |-> FALSE]
        /\ proc' = IF failing <= Len(config.states)
                   THEN Exit("engine_create_failed", 1)
                   ELSE [proc EXCEPT !.pc = "running"]
    /\ UNCHANGED << config, smVars, tailVars, thrVars, loopVars, lineVars,
                    pairVars, sinkVars, svcVars >>

\* What run returns once the engine thread has ended: True, whether
\* engine.run() returned or raised (the except clause of _run_engine_thread
\* only prints and clears self.running).
WatchdogService_run(raised) == TRUE

\* sys.exit(0 if success else 1)
main_exit(success) == IF success THEN 0 ELSE 1

\* run: the engine thread (_run_engine_thread), the wait for it and the
\* exit of main.
EngineThread ==
    /\ proc.pc = "running"
    /\ \E raised \in BOOLEAN :
        proc' = Exit(IF raised THEN "engine_error" ELSE "stopped",
                     main_exit(WatchdogService_run(raised)))
    /\ engine' = [engine EXCEPT !.ran = TRUE]
    /\ UNCHANGED << config, smVars, tailVars, thrVars, loopVars, lineVars,
                    pairVars, sinkVars, svcVars >>

NextStart ==
    \/ LoadMissing \/ LoadStatesLine \/ LoadPathLine \/ LoadRaises
    \/ initialize \/ print_config_summary \/ _setup_engine \/ EngineThread

SpecStart == InitStart /\ [][NextStart]_vars

(***************************************************************************)
(* The service and the signals.  SIGINT and SIGTERM are handled by         *)
(* _signal_handler, which calls shutdown(); Python runs a signal handler   *)
(* on the main thread, between two of its statements, so a call of         *)
(* shutdown() interrupts whatever the main thread is doing, a call of      *)
(* shutdown() included.  The main thread goes on when the handler has      *)
(* returned.  The engine thread runs engine.run(), which returns after the *)
(* engine was told to stop, or raises.                                     *)
(*   service.pc: "init" (constructed), "run" (initialize returned True),   *)
(*               "set_running" (engine set up), "thread", "loop",          *)
(*               "finally", "returned" (run returned), "exited" (initialize *)
(*               returned False and main exited)                           *)
(***************************************************************************)
InitService == SmIdle /\ TailIdle /\ ThrIdle /\ LoopIdle /\ HostIdle

svcRest == << config, engine, proc, smVars, tailVars, thrVars, loopVars,
              lineVars, pairVars, sinkVars >>

\* A signal reaches the process: _signal_handler calls shutdown().
Signal ==
    /\ service.pc \notin {"returned", "exited"}
    /\ shut.signals < MaxSignals
    /\ frames' = Append(frames, "test")
    /\ shut' = [shut EXCEPT !.requested = TRUE, !.signals = @ + 1]
    /\ UNCHANGED << service, engine_thread, svcRest >>

\* shutdown: if not self.running: return
ShutdownTest ==
    /\ frames # << >> /\ frames[Len(frames)] = "test"
    /\ frames' = IF service.running
                 THEN [frames EXCEPT ![Len(frames)] = "set"]
                 ELSE SubSeq(frames, 1, Len(frames) - 1)
    /\ UNCHANGED << service, engine_thread, shut, svcRest >>

\* shutdown: self.running = False
ShutdownSet ==
    /\ frames # << >> /\ frames[Len(frames)] = "set"
    /\ service' = [service EXCEPT !.running = FALSE]
    /\ frames' = [frames EXCEPT ![Len(frames)] = "stop"]
    /\ UNCHANGED << engine_thread, shut, svcRest >>

\* shutdown: if self.engine: self.engine.stop()
ShutdownStop ==
    /\ frames # << >> /\ frames[Len(frames)] = "stop"
    /\ shut' = [shut EXCEPT !.stop_calls = IF service.engine THEN @ + 1 ELSE @]
    /\ frames' = SubSeq(frames, 1, Len(frames) - 1)
    /\ UNCHANGED << service, engine_thread, svcRest >>

shutdown == ShutdownTest \/ ShutdownSet \/ ShutdownStop

\* main: if not service.initialize(): sys.exit(1)
ServiceInitialize ==
    \E ok \in BOOLEAN :
        /\ frames = << >> /\ service.pc = "init"
        /\ service' = [service EXCEPT !.pc = IF ok THEN "run" ELSE "exited"]
        /\ UNCHANGED << frames, engine_thread, shut, svcRest >>

\* run: if not self._setup_engine(): return False
ServiceSetup ==
    \E ok \in BOOLEAN :
        /\ frames = << >> /\ service.pc = "run"
        /\ service' = [service EXCEPT !.pc = IF ok THEN "set_running" ELSE "returned",
                                      !.engine = ok]
        /\ UNCHANGED << frames, engine_thread, shut, svcRest >>

\* run: self.running = True
ServiceSetRunning ==
    /\ frames = << >> /\ service.pc = "set_running"
    /\ service' = [service EXCEPT !.pc = "thread", !.running = TRUE]
    /\ UNCHANGED << frames, engine_thread, shut, svcRest >>

\* run: engine_thread = threading.Thread(...); engine_thread.start()
ServiceThread ==
    /\ frames = << >> /\ service.pc = "thread"
    /\ service' = [service EXCEPT !.pc = "loop"]
    /\ engine_thread' = "running"
    /\ UNCHANGED << frames, shut, svcRest >>

\* run: while self.running and engine_thread.is_alive(): time.sleep(0.5)
ServiceLoopExit ==
    /\ frames = << >> /\ service.pc = "loop"
    /\ ~(service.running /\ engine_thread = "running")
    /\ service' = [service EXCEPT !.pc = "finally"]
    /\ UNCHANGED << frames, engine_thread, shut, svcRest >>

\* run: except Exception: self.shutdown()
ServiceLoopExcept ==
    /\ frames = << >> /\ service.pc = "loop"
    /\ service' = [service EXCEPT !.pc = "finally"]
    /\ frames' = << "test" >>
    /\ shut' = [shut EXCEPT !.requested = TRUE]
    /\ UNCHANGED << engine_thread, svcRest >>

\* run: finally: engine_thread.join(timeout=2.0); return True
ServiceFinally ==
    /\ frames = << >> /\ service.pc = "finally"
    /\ service' = [service EXCEPT !.pc = "returned"]
    /\ UNCHANGED << frames, engine_thread, shut, svcRest >>

MainThread ==
    \/ ServiceInitialize \/ ServiceSetup \/ ServiceSetRunning \/ ServiceThread
    \/ ServiceLoopExit \/ ServiceLoopExcept \/ ServiceFinally

\* _run_engine_thread: engine.run() returns once the engine was told to stop.
EngineReturns ==
    /\ engine_thread = "running"
    /\ shut.stop_calls > 0
    /\ engine_thread' = "ended"
    /\ UNCHANGED << service, frames, shut, svcRest >>

\* _run_engine_thread: engine.run() raises; self.running = False
EngineRaises ==
    /\ engine_thread = "running"
    /\ engine_thread' = "ended"
    /\ service' = [service EXCEPT !.running = FALSE]
    /\ UNCHANGED << frames, shut, svcRest >>

NextService == Signal \/ shutdown \/ MainThread \/ EngineReturns \/ EngineRaises

SpecService == InitService /\ [][NextService]_vars

\* The main thread runs, a handler that was entered runs to its end, and an
\* engine that was told to stop stops.  No exception in the main loop or in
\* the engine is ever bound to happen.
SpecServiceFair ==
    /\ SpecService
    /\ WF_vars(shutdown)
    /\ WF_vars(ServiceInitialize \/ ServiceSetup \/ ServiceSetRunning
               \/ ServiceThread \/ ServiceLoopExit \/ ServiceFinally)
    /\ WF_vars(EngineReturns)

(***************************************************************************)
(* The notifier calls of the handlers, each with the runtime the state     *)
(* machine is in when the call is made (a step is [event, run]).           *)
(***************************************************************************)
\* _check_state_machine_rules: the activation loop notifies rule by rule,
\* the advancement loop runs over the rules that are Active after it.
Calls_check_state_machine_rules(run, node_name, t) ==
    LET act == [i \in Rules |-> activate_state(states[i], run[i], node_name, t)]
        runA(i) == [j \in Rules |-> IF j <= i THEN act[j].r ELSE run[j]]
        activated == Flatten([i \in Rules |->
                        IF act[i].activated
                        THEN << [event |-> send_state_activated(states[i].name),
                                 run |-> runA(i)] >>
                        ELSE << >>])
        run1 == runA(Len(states))
        active == get_active_states(run1)
        chk == [i \in Rules |-> check_transition(states[i], run1[i], node_name, t)]
        runC(k) == [i \in Rules |->
                      IF \E m \in 1..k : active[m] = i THEN chk[i].r ELSE run1[i]]
        completed == Flatten([k \in 1..Len(active) |->
                        IF chk[active[k]].result = "completed"
                        THEN << [event |-> send_state_completed(
                                               states[active[k]].name, node_name),
                                 run |-> runC(k)] >>
                        ELSE << >>])
    IN  activated \o completed

\* _handle_entry_node: the interruptions are notified before the reset, the
\* entry after it.
Calls_handle_entry_node(entry, run, node_name, t) ==
    LET active == get_active_states(run)
        interrupted == [k \in 1..Len(active) |->
                          [event |-> send_state_interrupted(states[active[k]].name,
                                                            node_name),
                           run |-> run]]
        run1 == reset_all_states(run)
    IN  interrupted
        \o << [event |-> send_entry_detected(entry_nodes[entry].name, node_name),
               run |-> run1] >>
        \o Calls_check_state_machine_rules(run1, node_name, t)

Calls_process_log_line(run, node_name, t) ==
    IF is_entry_node(node_name) # 0
    THEN Calls_handle_entry_node(is_entry_node(node_name), run, node_name, t)
    ELSE Calls_check_state_machine_rules(run, node_name, t)

\* _check_timeouts: check_timeouts has reset the rules before the first call.
Calls_check_timeouts(run, t) ==
    [k \in 1..Len(_check_timeouts(run, t).events) |->
        [event |-> _check_timeouts(run, t).events[k],
         run |-> _check_timeouts(run, t).run]]

\* The calls of one iteration of _monitor_loop in order, each with the line
\* that causes it (src, k as in Tag), and the runtime after the iteration.
TagCalls(calls, src) ==
    [i \in 1..Len(calls) |->
        [event |-> calls[i].event, src |-> src, k |-> i, run |-> calls[i].run]]

IterationCalls(run, new_lines, t) ==
    LET P[j \in 0..Len(new_lines)] ==
            IF j = 0 THEN [run |-> run, calls |-> << >>]
            ELSE CHOOSE after \in UNION {
                     { [run |-> _process_log_line(before.run, new_lines[j], t).run,
                        calls |-> before.calls \o TagCalls(c, j)] :
                       c \in {Calls_process_log_line(before.run, new_lines[j], t)} } :
                     before \in {P[j - 1]} } : TRUE
    IN  CHOOSE after \in UNION {
            { [run |-> _check_timeouts(lines.run, t).run,
               calls |-> lines.calls \o TagCalls(c, Len(new_lines) + 1)] :
              c \in {Calls_check_timeouts(lines.run, t)} } :
            lines \in {P[Len(new_lines)]} } : TRUE

(***************************************************************************)
(* The hosts.  A platform answers a post in one of three ways: "ok", it    *)
(* "refuses" (an HTTP or API error status), or the post "raises" (the      *)
(* network is down).  Both platforms are configured, telegram is tried     *)
(* first.  A call of the host returns [posted, raised, above]: whether a    *)
(* post was attempted, whether a platform raised under it, and whether an  *)
(* exception leaves the call.                                              *)
(***************************************************************************)
Transports ==
    { [telegram |-> "ok", wechat |-> "ok"],
      [telegram |-> "raises", wechat |-> "ok"],
      [telegram |-> "refuses", wechat |-> "raises"] }

NotifyWhenValues ==
    { [given |-> FALSE, parts |-> << >>],
      [given |-> TRUE, parts |-> << "timeout", "StateCompleted" >>],
      [given |-> TRUE, parts |-> << "EngineLog", "EntryDetected" >>] }

DEFAULT_NOTIFY_EVENTS ==
    {"StateActivated", "StateCompleted", "Timeout", "StateInterrupted",
     "EntryDetected"}

\* part.lower() on the parts of NotifyWhenValues and the event kinds.
lower(part) ==
    CASE part \in {"timeout", "Timeout"} -> "timeout"
      [] part = "StateCompleted" -> "statecompleted"
      [] part = "StateActivated" -> "stateactivated"
      [] part = "StateInterrupted" -> "stateinterrupted"
      [] part = "EntryDetected" -> "entrydetected"
      [] part = "EngineLog" -> "enginelog"
      [] OTHER -> part

\* config.py: notify_events after _parse_notify_when, which keeps the parts
\* that are event names whatever their case, under their canonical name.
_parse_notify_when(parts) ==
    { kind \in DEFAULT_NOTIFY_EVENTS :
        \E n \in 1..Len(parts) : lower(parts[n]) = lower(kind) }

\* config_loader.py: notify_events is the set of the parts as written.
loader_notify_events(parts) == { parts[n] : n \in 1..Len(parts) }

notify_events ==
    IF host = "notifier"
    THEN IF notify_when.given THEN _parse_notify_when(notify_when.parts)
         ELSE DEFAULT_NOTIFY_EVENTS
    ELSE IF notify_when.given THEN loader_notify_events(notify_when.parts)
         ELSE {"Timeout", "StateInterrupted"}

\* Mutant: every kind is notified.
should_notify_All(event_type) ==
    TRUE

should_notify(event_type) ==
    event_type \in notify_events

\* TelegramNotifier / WeChatWorkNotifier send_message: True on success;
\* an error status and an exception both give False.
send_message(answer) == answer = "ok"

\* Whether a platform raises under a send: telegram is always tried, wechat
\* only when telegram has not succeeded.
PlatformRaises(transport) ==
    \/ transport.telegram = "raises"
    \/ ~send_message(transport.telegram) /\ transport.wechat = "raises"

\* Mutant: the platforms are posted to without any try.
send_notification_NoTry(transport) ==
    [posted |-> TRUE, raised |-> PlatformRaises(transport),
     above |-> PlatformRaises(transport)]

\* WatchdogNotifier.send_notification: the platforms in try order, each in
\* its own try; nothing leaves the call.
send_notification(transport) ==
    [posted |-> TRUE, raised |-> PlatformRaises(transport), above |-> FALSE]

NotPosted == [posted |-> FALSE, raised |-> FALSE, above |-> FALSE]

\* WatchdogNotifier.send_state_activated, send_state_completed, ...: the
\* filter, then send_notification.
send_state_event(kind, transport) ==
    IF ~should_notify(kind) THEN NotPosted ELSE send_notification(transport)

\* ActionManager.execute_actions: the filter, then _handle_notifications,
\* whose _send_telegram and _send_wechat catch what the post raises.
execute_actions(event_type, transport) ==
    IF ~should_notify(event_type) THEN NotPosted
    ELSE [posted |-> TRUE,
          raised |-> transport.telegram = "raises",
          above |-> FALSE]

\* WatchdogService.on_event: engine-log events are printed and nothing
\* else; the others go to execute_actions.
on_event(kind, transport) ==
    IF kind = "EngineLog" THEN NotPosted ELSE execute_actions(kind, transport)

HostCall(kind, transport) ==
    IF host = "notifier" THEN send_state_event(kind, transport)
    ELSE on_event(kind, transport)

\* One iteration of the loop with its deliveries; it is what
\* IterationCalls gives for the iteration.  The try of _monitor_loop spans
\* the whole iteration: at the first call that an exception leaves, the rest
\* of the iteration is skipped and the runtime stays as it was at that call.
_monitor_loop_delivering(it, transport) ==
    LET out == [k \in 1..Len(it.calls) |-> HostCall(it.calls[k].event.kind, transport)]
        Above == {k \in 1..Len(it.calls) : out[k].above}
        made == IF Above = {} THEN Len(it.calls)
                ELSE CHOOSE k \in Above : \A k2 \in Above : k <= k2
    IN  [run |-> IF Above = {} THEN it.run ELSE it.calls[made].run,
         events |-> [k \in 1..made |->
                       [event |-> it.calls[k].event, src |-> it.calls[k].src,
                        k |-> it.calls[k].k]],
         posted |-> {it.calls[k].event.kind : k \in {n \in 1..made : out[n].posted}},
         raised |-> \E k \in 1..made : out[k].raised]

(***************************************************************************)
(* The loop delivering to a host.  The declaration with one rule, whose    *)
(* start node is the entry node, is in force; the clock advances by        *)
(* MaxStep between two iterations.                                         *)
(***************************************************************************)
InitSink ==
    /\ cfg = Len(Declarations)
    /\ now = 0
    /\ rt = [i \in Rules |-> [is_active |-> FALSE, current_transition_index |-> 0,
                              last_advance_time |-> 0]]
    /\ emitted = << >>
    /\ lastOp = [kind |-> "init", node |-> "", at |-> 0]
    /\ prev = rt
    /\ armed_at = [i \in Rules |-> 0]
    /\ activated_at = [i \in Rules |-> 0]
    /\ host \in {"notifier", "callback"}
    /\ notify_when \in NotifyWhenValues
    /\ posted = {}
    /\ expected = [run |-> rt, events |-> << >>]
    /\ delivery = [raised |-> FALSE, after_raise |-> FALSE]
    /\ FbIdle
    /\ TailIdle /\ ThrIdle /\ LoopIdle /\ LineIdle /\ PairIdle /\ StartIdle

IterateDelivering ==
    \E new_lines \in Batches :
        \E it \in {IterationCalls(rt, new_lines, now + MaxStep)},
           ref \in {_monitor_loop(rt, new_lines, now + MaxStep)},
           transport \in Transports :
          \E res \in {_monitor_loop_delivering(it, transport)} :
            /\ now + MaxStep <= MaxTime
            /\ now' = now + MaxStep
            /\ rt' = res.run
            /\ sink' = res.events
            /\ posted' = res.posted
            /\ expected' = ref
            /\ delivery' = [raised |-> res.raised, after_raise |-> delivery.raised]
            /\ iteration' = [nlines |-> Len(new_lines), at |-> now + MaxStep]
            /\ lastOp' = [kind |-> "iteration", node |-> "", at |-> now + MaxStep]
            /\ UNCHANGED << cfg, emitted, prev, armed_at, activated_at, host,
                            notify_when, fbVars, tailVars, thrVars, lineVars,
                            pairVars, startVars >>

\* The engine reports one of its own messages to the callback host.
EngineLogEvent ==
    /\ host = "callback"
    /\ lastOp.kind # "log"
    /\ \E transport \in Transports :
        \E res \in {on_event("EngineLog", transport)} :
            /\ posted' = IF res.posted THEN {"EngineLog"} ELSE {}
            /\ delivery' = [raised |-> res.raised, after_raise |-> delivery.raised]
    /\ sink' = << >>
    /\ expected' = [run |-> rt, events |-> << >>]
    /\ lastOp' = [kind |-> "log", node |-> "", at |-> now]
    /\ UNCHANGED << cfg, now, rt, emitted, prev, armed_at, activated_at, host,
                    notify_when, fbVars, iteration, tailVars, thrVars, lineVars,
                    pairVars, startVars >>

NextSink == IterateDelivering \/ EngineLogEvent

SpecSink == InitSink /\ [][NextSink]_vars

(***************************************************************************)
(* The fallback between the platforms, for one notification that passed    *)
(* the filter.  The settings say which platforms are configured and which  *)
(* one is the default; a post to a platform succeeds ("ok"), is answered   *)
(* with an error status ("refuses") or raises ("raises").                  *)
(***************************************************************************)
Platforms == {"telegram", "wechat"}

\* config.py: telegram needs bot_token and chat_id, wechat its webhook_key.
get_available_notifiers(conf) ==
    (IF conf.bot_token /\ conf.chat_id THEN << "telegram" >> ELSE << >>)
    \o (IF conf.webhook_key THEN << "wechat" >> ELSE << >>)

\* config_loader.py: telegram needs bot_token only.
loader_get_available_notifiers(conf) ==
    (IF conf.bot_token THEN << "telegram" >> ELSE << >>)
    \o (IF conf.webhook_key THEN << "wechat" >> ELSE << >>)

\* The default platform first when it is among the available ones, then the
\* others in their order.
try_order(available, default_platform) ==
    IF \E k \in 1..Len(available) : available[k] = default_platform
    THEN << default_platform >>
         \o SelectSeq(available, LAMBDA p : p # default_platform)
    ELSE available

\* The platforms of the order up to the first one for which the send
\* returned True (all of them if there is none).
TriedUntil(order, returns_true) ==
    LET hits == {k \in 1..Len(order) : returns_true[order[k]]}
    IN  IF hits = {} THEN order
        ELSE SubSeq(order, 1, CHOOSE k \in hits : \A k2 \in hits : k <= k2)

\* WatchdogNotifier.send_notification: send_message returns True only for a
\* post that was accepted.
send_notification_fallback(conf, ans) ==
    LET order == try_order(get_available_notifiers(conf), conf.default_ext_notify)
        returns_true == [p \in Platforms |-> send_message(ans[p])]
    IN  [order |-> order,
         tried |-> TriedUntil(order, returns_true),
         result |-> \E k \in 1..Len(order) : returns_true[order[k]]]

\* ActionManager._send_telegram, _send_wechat: True unless the post raises;
\* the response is not looked at.
_send_platform(answer) == answer # "raises"

\* ActionManager._handle_notifications: it returns at the first send that
\* returned True; that is its result here.
_handle_notifications(conf, ans) ==
    LET order == try_order(loader_get_available_notifiers(conf),
                           conf.default_ext_notify)
        returns_true == [p \in Platforms |-> _send_platform(ans[p])]
    IN  [order |-> order,
         tried |-> TriedUntil(order, returns_true),
         result |-> \E k \in 1..Len(order) : returns_true[order[k]]]

\* A platform whose settings are incomplete does not accept a post.
InitFallback ==
    /\ SmIdle /\ TailIdle /\ ThrIdle /\ LoopIdle /\ LineIdle /\ PairIdle /\ StartIdle
    /\ host = "notifier"
    /\ notify_when = [given |-> FALSE, parts |-> << >>]
    /\ posted = {}
    /\ expected = [run |-> rt, events |-> << >>]
    /\ delivery = [raised |-> FALSE, after_raise |-> FALSE]
    /\ platforms_conf \in [bot_token : BOOLEAN, chat_id : BOOLEAN,
                           webhook_key : BOOLEAN,
                           default_ext_notify : {"", "telegram", "wechat"}]
    /\ answers \in [telegram : {"ok", "refuses", "raises"},
                    wechat : {"ok", "refuses", "raises"}]
    /\ (platforms_conf.bot_token /\ platforms_conf.chat_id) \/ answers.telegram # "ok"
    /\ platforms_conf.webhook_key \/ answers.wechat # "ok"
    /\ sent = [done |-> FALSE, host |-> "", order |-> << >>, tried |-> << >>,
                  result |-> FALSE]

fbRest == << host, notify_when, posted, expected, delivery, platforms_conf,
             answers, smVars, tailVars, thrVars, loopVars, lineVars, pairVars,
             startVars >>

\* The notification is sent by the WatchdogNotifier of LogMonitor.
NotifyByNotifier ==
    \E res \in {send_notification_fallback(platforms_conf, answers)} :
        /\ ~sent.done
        /\ sent' = [done |-> TRUE, host |-> "notifier", order |-> res.order,
                       tried |-> res.tried, result |-> res.result]
        /\ UNCHANGED fbRest

\* The notification is sent by the ActionManager of the service.
NotifyByActions ==
    \E res \in {_handle_notifications(platforms_conf, answers)} :
        /\ ~sent.done
        /\ sent' = [done |-> TRUE, host |-> "callback", order |-> res.order,
                       tried |-> res.tried, result |-> res.result]
        /\ UNCHANGED fbRest

NextFallback == NotifyByNotifier \/ NotifyByActions

SpecFallback == InitFallback /\ [][NextFallback]_vars

(***************************************************************************)
(* The cadence of the loop: whole iterations under every declaration, the  *)
(* clock read one wait after the iteration before.  An iteration either    *)
(* reads no line (the log is silent) or reads one line, whose node is      *)
(* lastOp.node; polls of several lines are the matter of SpecLoop.         *)
(***************************************************************************)
InitCadence == Init

IterationOf(new_lines, dt) ==
    \E res \in {_monitor_loop(rt, new_lines, now + dt)} :
        /\ now + dt <= MaxTime
        /\ now' = now + dt
        /\ rt' = res.run
        /\ prev' = rt
        /\ sink' = [i \in 1..Len(res.events) |->
                       [event |-> res.events[i].event,
                        src |-> res.events[i].src,
                        k |-> res.events[i].k,
                        at |-> now + dt]]
        /\ emitted' = [i \in 1..Len(res.events) |-> res.events[i].event]
        /\ iteration' = [nlines |-> Len(new_lines), at |-> now + dt]
        /\ lastOp' = [kind |-> "iteration",
                      node |-> IF new_lines = << >> THEN "" ELSE new_lines[1],
                      at |-> now + dt]
        /\ UNCHANGED << cfg, armed_at, activated_at, tailVars, thrVars, hostSide >>

\* _read_new_log_lines returned no line.
IterateSilent ==
    \E dt \in 1..MaxStep :
        /\ now + dt <= MaxTime
        /\ IterationOf(<< >>, dt)

\* _read_new_log_lines returned one line.
IterateLine ==
    \E node_name \in Declarations[cfg].alphabet, dt \in 1..MaxStep :
        /\ now + dt <= MaxTime
        /\ IterationOf(<< node_name >>, dt)

NextCadence == IterateSilent \/ IterateLine

SpecCadence == InitCadence /\ [][NextCadence]_vars

(***************************************************************************)
(* Vocabulary of the properties.  They read the last operation (lastOp),   *)
(* the runtime before it (prev), the runtime after it (rt) and the         *)
(* notifier calls it made (emitted).                                       *)
(***************************************************************************)
NbEmitted(kind, name) ==
    Cardinality({k \in 1..Len(emitted) :
                    emitted[k].kind = kind /\ emitted[k].state_name = name})

\* The notifier calls of the last operation that name rule i.
NbEventsOf(i) ==
    Cardinality({k \in 1..Len(emitted) : emitted[k].state_name = states[i].name})

NbTransitions(i) == Len(states[i].transitions)

\* The transition rule i was waiting for before the last operation.
Awaited(i) == states[i].transitions[prev[i].current_transition_index + 1]

DeclaredCompletion(node) ==
    \E k \in 1..Len(completion_nodes) : completion_nodes[k].node_name = node

DeclaredEntry(node) ==
    \E k \in 1..Len(entry_nodes) : entry_nodes[k].node_name = node

ActiveAt(r, idx, t) ==
    r = [is_active |-> TRUE, current_transition_index |-> idx,
         last_advance_time |-> t]

Observed(node) == lastOp.kind = "node" /\ lastOp.node = node

\* C1: on a tick, every rule that was Active, awaited a target that is not a
\* completion node and had elapsed > timeout_ms gets exactly one Timeout event
\* and is Idle afterwards; a Timeout is only ever emitted for a rule that was
\* Active, and an Idle rule becomes Active only by an observation of its
\* start_node, so a timed-out rule gets no further Timeout until then.
C1_TimeoutDetection ==
    /\ lastOp.kind = "tick" =>
         \A i \in Rules :
            ( /\ prev[i].is_active
              /\ ~DeclaredCompletion(Awaited(i).target_node)
              /\ lastOp.at - prev[i].last_advance_time > Awaited(i).timeout_ms )
            => /\ NbEmitted("Timeout", states[i].name) = 1
               /\ ~rt[i].is_active
    /\ \A i \in Rules :
          /\ NbEmitted("Timeout", states[i].name) > 0 => prev[i].is_active
          /\ (~prev[i].is_active /\ rt[i].is_active)
                => Observed(states[i].start_node)

C1_Witness ==
    /\ lastOp.kind = "tick"
    /\ \E i \in Rules :
          /\ prev[i].is_active
          /\ prev[i].current_transition_index = 1
          /\ ~rt[i].is_active
          /\ NbEmitted("Timeout", states[i].name) = 1

\* C2: a Timeout event is emitted only by a tick, only for a rule that was
\* Active, only when the time since the rule was last activated, re-activated
\* or advanced is strictly greater than the timeout_ms of the transition it
\* awaited, and it carries exactly that elapsed time.
C2_TimeoutOnlyWhenOverdue ==
    \A k \in 1..Len(emitted) :
        emitted[k].kind = "Timeout" =>
            /\ lastOp.kind = "tick"
            /\ \E i \in Rules :
                  /\ states[i].name = emitted[k].state_name
                  /\ prev[i].is_active
                  /\ lastOp.at - armed_at[i] > Awaited(i).timeout_ms
                  /\ emitted[k].elapsed_ms = lastOp.at - armed_at[i]

\* A rule armed again after time 0 is timed out by the first tick at which
\* the time since that arming exceeds the timeout.
C2_Witness ==
    /\ lastOp.kind = "tick"
    /\ \E i \in Rules :
          /\ NbEmitted("Timeout", states[i].name) = 1
          /\ armed_at[i] > 0
          /\ lastOp.at - armed_at[i] = Awaited(i).timeout_ms + 1

\* C3: while a rule is Active and the target it awaits is a declared
\* completion node, a tick emits no Timeout for it and leaves its runtime
\* unchanged, however long it has waited; when that completion node is then
\* observed (it being neither an entry node nor the rule's start node) the
\* rule completes: Idle, with one StateCompleted.
C3_CompletionNeverTimesOut ==
    \A i \in Rules :
        (prev[i].is_active /\ DeclaredCompletion(Awaited(i).target_node)) =>
            /\ lastOp.kind = "tick" =>
                  /\ rt[i] = prev[i]
                  /\ NbEmitted("Timeout", states[i].name) = 0
            /\ ( /\ Observed(Awaited(i).target_node)
                 /\ ~DeclaredEntry(lastOp.node)
                 /\ lastOp.node # states[i].start_node
                 /\ prev[i].current_transition_index + 1 = NbTransitions(i) )
               => /\ ~rt[i].is_active
                  /\ NbEmitted("StateCompleted", states[i].name) = 1

\* A tick finds the rule far beyond its timeout and leaves it Active.
C3_Witness ==
    /\ lastOp.kind = "tick"
    /\ \E i \in Rules :
          /\ prev[i].is_active
          /\ DeclaredCompletion(Awaited(i).target_node)
          /\ lastOp.at - prev[i].last_advance_time > Awaited(i).timeout_ms + 1
          /\ rt[i].is_active

\* What an observation of the awaited target does to rule i.
AdvancedOrCompleted(i) ==
    IF prev[i].current_transition_index + 1 < NbTransitions(i)
    THEN /\ ActiveAt(rt[i], prev[i].current_transition_index + 1, lastOp.at)
         /\ NbEventsOf(i) = 0
    ELSE /\ ~rt[i].is_active
         /\ NbEmitted("StateCompleted", states[i].name) = 1
         /\ NbEventsOf(i) = 1
         /\ \A k \in 1..Len(emitted) :
               emitted[k].kind = "StateCompleted" => emitted[k].node_name = lastOp.node

\* StateCompleted is emitted, and an index above 0 is reached, only by
\* observing the targets one after the other.
CompletedOnlyInOrder ==
    \A i \in Rules :
        /\ NbEmitted("StateCompleted", states[i].name) > 0 =>
              /\ Observed(states[i].transitions[NbTransitions(i)].target_node)
              /\ \/ /\ prev[i].is_active
                    /\ prev[i].current_transition_index + 1 = NbTransitions(i)
                 \/ /\ NbTransitions(i) = 1
                    /\ lastOp.node = states[i].start_node
        /\ ( /\ rt[i].is_active
             /\ rt[i].current_transition_index > 0
             /\ ~( /\ prev[i].is_active
                   /\ prev[i].current_transition_index
                        = rt[i].current_transition_index ) )
           => /\ Observed(states[i].transitions[rt[i].current_transition_index]
                            .target_node)
              /\ \/ /\ prev[i].is_active
                    /\ prev[i].current_transition_index + 1
                         = rt[i].current_transition_index
                 \/ /\ rt[i].current_transition_index = 1
                    /\ lastOp.node = states[i].start_node

\* C4 as claimed: whenever the node a rule awaits at index i is observed, the
\* rule advances to i+1 with its clock reset and no event (i+1 < n), or
\* returns to Idle with exactly one StateCompleted carrying that node
\* (i+1 = n).
C4_AdvancementAsClaimed ==
    \A i \in Rules :
        (prev[i].is_active /\ Observed(Awaited(i).target_node))
            => AdvancedOrCompleted(i)

\* C4, amended: the same, for an awaited node that is neither an entry node
\* nor the rule's own start_node; and StateCompleted is emitted only after
\* the targets were observed in declared order.
C4_Advancement ==
    /\ \A i \in Rules :
          ( /\ prev[i].is_active
            /\ Observed(Awaited(i).target_node)
            /\ ~DeclaredEntry(lastOp.node)
            /\ lastOp.node # states[i].start_node )
          => AdvancedOrCompleted(i)
    /\ CompletedOnlyInOrder

\* A rule with two transitions completes on its second target.
C4_Witness ==
    \E i \in Rules :
        /\ prev[i].is_active
        /\ prev[i].current_transition_index = 1
        /\ NbTransitions(i) = 2
        /\ Observed(Awaited(i).target_node)
        /\ ~rt[i].is_active
        /\ NbEmitted("StateCompleted", states[i].name) = 1

\* C5: an observation of a node makes every Idle rule whose start_node is
\* the node Active at index 0 with its clock at the observation time and
\* emits exactly one StateActivated for it; a rule with another start_node
\* is not activated.
C5_Activation ==
    lastOp.kind = "node" =>
        \A i \in Rules :
            /\ (~prev[i].is_active /\ states[i].start_node = lastOp.node)
                  => /\ ActiveAt(rt[i], 0, lastOp.at)
                     /\ NbEmitted("StateActivated", states[i].name) = 1
            /\ states[i].start_node # lastOp.node
                  => /\ NbEmitted("StateActivated", states[i].name) = 0
                     /\ ~(~prev[i].is_active /\ rt[i].is_active)

\* C6: an Active rule that observes its own start_node is left Active at
\* index 0 with its clock at the observation time, and neither StateActivated
\* nor StateInterrupted is emitted for it.
C6_Reactivation ==
    \A i \in Rules :
        (prev[i].is_active /\ Observed(states[i].start_node)) =>
            /\ ActiveAt(rt[i], 0, lastOp.at)
            /\ NbEmitted("StateActivated", states[i].name) = 0
            /\ NbEmitted("StateInterrupted", states[i].name) = 0

\* The interruption events of an observed entry node: one StateInterrupted
\* per rule that was Active, none for a rule that was Idle, one EntryDetected.
InterruptEvents ==
    /\ \A i \in Rules :
          NbEmitted("StateInterrupted", states[i].name)
             = IF prev[i].is_active THEN 1 ELSE 0
    /\ Cardinality({k \in 1..Len(emitted) : emitted[k].kind = "EntryDetected"}) = 1

\* C7 as claimed: an observed entry node leaves every rule Idle and emits the
\* interruption events.
C7_InterruptTotalityAsClaimed ==
    (lastOp.kind = "node" /\ DeclaredEntry(lastOp.node)) =>
        /\ \A i \in Rules : ~rt[i].is_active
        /\ InterruptEvents

\* C7, amended: an observed entry node leaves Idle every rule whose start_node
\* is not that node, and emits the interruption events.
C7_InterruptTotality ==
    (lastOp.kind = "node" /\ DeclaredEntry(lastOp.node)) =>
        /\ \A i \in Rules :
              states[i].start_node # lastOp.node
                 => /\ ~rt[i].is_active
                    /\ rt[i].current_transition_index = 0
        /\ InterruptEvents

\* An entry node interrupts a rule in mid-path while the rule that starts at
\* the entry node is Active afterwards.
C7_Witness ==
    /\ lastOp.kind = "node"
    /\ DeclaredEntry(lastOp.node)
    /\ \E i \in Rules :
          /\ prev[i].is_active
          /\ states[i].start_node # lastOp.node
          /\ ~rt[i].is_active
    /\ \E j \in Rules : rt[j].is_active

Rank(kind) ==
    CASE kind = "StateInterrupted" -> 1
      [] kind = "EntryDetected" -> 2
      [] kind = "StateActivated" -> 3
      [] kind = "StateCompleted" -> 4
      [] OTHER -> 5

\* C8: the events of one observation are StateInterrupted, EntryDetected,
\* StateActivated and StateCompleted events, emitted in that order: no
\* StateActivated precedes a StateInterrupted or the EntryDetected, and no
\* StateCompleted precedes a StateActivated.
C8_OrderWithinObservation ==
    lastOp.kind = "node" =>
        /\ \A k \in 1..Len(emitted) : Rank(emitted[k].kind) <= 4
        /\ \A j, k \in 1..Len(emitted) :
              j < k => Rank(emitted[j].kind) <= Rank(emitted[k].kind)

\* One observation activates a later rule and completes an earlier one: the
\* StateActivated comes first.
C8_Witness ==
    /\ lastOp.kind = "node"
    /\ \E i, j \in Rules :
          /\ i < j
          /\ NbEmitted("StateCompleted", states[i].name) = 1
          /\ NbEmitted("StateActivated", states[j].name) = 1

\* The events that name rule i, in emission order.
KindsOf(i) ==
    LET pick[k \in 0..Len(emitted)] ==
            IF k = 0 THEN << >>
            ELSE IF emitted[k].state_name = states[i].name
                 THEN Append(pick[k - 1], emitted[k].kind)
                 ELSE pick[k - 1]
    IN  pick[Len(emitted)]

\* C9: when the observed node is an entry node and the start_node of rule R,
\* R ends Active at index 0 with its clock at the observation time, and the
\* observation emits StateInterrupted(R) (only if R was Active), then
\* EntryDetected, then StateActivated(R).
C9_EntryThatIsStart ==
    \A i \in Rules :
        ( /\ lastOp.kind = "node"
          /\ DeclaredEntry(lastOp.node)
          /\ states[i].start_node = lastOp.node )
        => /\ ActiveAt(rt[i], 0, lastOp.at)
           /\ KindsOf(i) = IF prev[i].is_active
                           THEN << "StateInterrupted", "StateActivated" >>
                           ELSE << "StateActivated" >>
           /\ \E k \in 1..Len(emitted) :
                 /\ emitted[k].kind = "EntryDetected"
                 /\ \A j \in 1..Len(emitted) :
                       /\ (emitted[j].kind = "StateInterrupted") => j < k
                       /\ (emitted[j].kind = "StateActivated") => k < j

\* C10: for a rule whose start_node is its own first target, one observation
\* of that node while the rule is Idle leaves it Active at index 0 and emits
\* only StateActivated for it.
C10_DegenerateRule ==
    \A i \in Rules :
        ( /\ states[i].start_node = states[i].transitions[1].target_node
          /\ Observed(states[i].start_node)
          /\ ~prev[i].is_active )
        => /\ ActiveAt(rt[i], 0, lastOp.at)
           /\ KindsOf(i) = << "StateActivated" >>

(***************************************************************************)
(* Vocabulary of the tailer properties.                                    *)
(***************************************************************************)
IsPrefix(s, t) ==
    /\ Len(s) <= Len(t)
    /\ \A i \in 1..Len(s) : s[i] = t[i]

\* The complete (newline-terminated, non-blank) lines of the file from the
\* offset polling started at, up to the last complete line.
Expected ==
    LET text == Decode(SubSeq(file, origin.start + 1, Len(file)))
    IN  NonBlankLines(SubSeq(text, 1, rfind(text)))

\* len(line.encode('utf-8'))
EncodedLen(line) ==
    LET F[i \in 0..Len(line)] ==
            IF i = 0 THEN 0
            ELSE F[i - 1] + (IF line[i] = "E" THEN 2 ELSE 1)
    IN  F[Len(line)]

\* sum(len(l) + 1 for l in lines), in bytes
SumLen(lines) ==
    LET F[i \in 0..Len(lines)] ==
            IF i = 0 THEN 0 ELSE F[i - 1] + EncodedLen(lines[i]) + 1
    IN  F[Len(lines)]

\* C11 (no duplication, no loss under append): while the file has only
\* grown, the lines returned so far are a prefix of the file's complete
\* lines from the starting offset, and right after a poll they are all of
\* them: nothing is returned twice, nothing is skipped.
C11_NoDuplicationNoLoss ==
    ~origin.truncated =>
        /\ IsPrefix(returned, Expected)
        /\ poll.kind = "poll" => returned = Expected

\* C12 (partial-line safety): while the file has only grown, every line a
\* poll returns is, whole, the complete line of the file at that place (never
\* a line without its newline, never a fragment), and after the poll every
\* complete line has been returned by exactly one poll.
C12_PartialLineSafety ==
    (~origin.truncated /\ poll.kind = "poll") =>
        LET base == Len(returned) - Len(poll.lines)
        IN  /\ \A k \in 1..Len(poll.lines) :
                   /\ base + k <= Len(Expected)
                   /\ poll.lines[k] = Expected[base + k]
            /\ Len(returned) = Len(Expected)

\* C13 (rotation recovery): after a truncation to zero, whatever was written
\* before the next poll, the lines returned since the truncation are, right
\* after a poll, exactly the complete lines written since the truncation.
C13_RotationRecovery ==
    (origin.truncated /\ poll.kind = "poll") => returned = Expected

\* C14 as claimed: a poll that detects no rotation advances the cursor by at
\* least the bytes of the lines it returns, and a poll that returns no lines
\* (rotation detected or not) never leaves the cursor before its previous
\* position.
C14_MonotoneCursorAsClaimed ==
    poll.kind = "poll" =>
        /\ ~poll.rotated => log_file.pos >= poll.before + SumLen(poll.lines)
        /\ poll.lines = << >> => log_file.pos >= poll.before

\* C14 (monotone cursor): a poll that detects no rotation leaves the cursor at
\* least sum(len(l) + 1 for l in L) bytes beyond its previous position, L
\* being the lines it returns; in particular, with no line returned, not
\* before its previous position.
C14_MonotoneCursor ==
    (poll.kind = "poll" /\ ~poll.rotated) =>
        log_file.pos >= poll.before + SumLen(poll.lines)

\* A poll without rotation returned a line holding a two-byte character and
\* left a partial line behind.
C14_Witness ==
    /\ poll.kind = "poll" /\ ~poll.rotated
    /\ \E k \in 1..Len(poll.lines) :
           \E i \in 1..Len(poll.lines[k]) : poll.lines[k][i] = "E"
    /\ log_file.pos < Len(file)

\* C15 (self-healing after a read failure): after any poll made while the
\* log path can be opened, the tailer holds an open handle on the log: a
\* failed re-open is retried by later polls.
C15_SelfHealing ==
    (poll.kind = "poll" /\ poll.could_open) => log_file.open

\* C16 (no events after stop): once a call of stop_monitoring that stopped
\* the run has returned, the monitor thread processes no log line and
\* notifies no event.
C16_NoEventsAfterStop == ~hist.late

C18_StopIdempotent ==
    [][hist.stop_done =>
          /\ is_running' = FALSE /\ ~is_running
          /\ stop_event' /\ stop_event
          /\ \A c \in Callers : caller[c] = "idle" => caller'[c] = "idle"
          /\ caller' # caller =>
                 /\ log_file' = log_file \/ log_file' = NoFile
                 /\ loop' = loop]_vars

\* A call made after a stop had returned has itself returned, and a call
\* that overlapped the first one is still under way.
C18_Witness ==
    /\ hist.stop_done /\ hist.noop
    /\ \E c \in Callers : caller[c] = "cleanup"

\* C19 (log handle release): once the monitor thread has ended and every
\* call of stop_monitoring has returned, log_file is None.
C19_HandleReleased ==
    (/\ loop = "ended"
     /\ hist.stop_done
     /\ \A c \in Callers : caller[c] = "idle") => ~log_file.open

\* C20 (event delivery order): the notifier calls of an iteration are made
\* in the order the state machine produced them: calls caused by an earlier
\* line precede those of a later line, calls caused by lines precede the
\* timeout calls of the iteration's tick, calls of one source keep their
\* order, no call is made twice, and every call of an iteration is made
\* during that iteration, before the next one starts.
C20_DeliveryOrder ==
    /\ \A i \in 1..Len(sink) :
           /\ sink[i].at = iteration.at /\ iteration.at = now
           /\ sink[i].src \in 1..(iteration.nlines + 1)
           /\ (sink[i].src = iteration.nlines + 1)
                  <=> (sink[i].event.kind = "Timeout")
    /\ \A i \in 1..Len(sink) : \A j \in (i + 1)..Len(sink) :
           \/ sink[i].src < sink[j].src
           \/ sink[i].src = sink[j].src /\ sink[i].k < sink[j].k

\* An iteration delivered calls caused by its first line, by its second line
\* and by its timeout pass.
C20_Witness ==
    /\ \E i \in 1..Len(sink) : sink[i].src = 1
    /\ \E i \in 1..Len(sink) : sink[i].src = 2
    /\ \E i \in 1..Len(sink) : sink[i].event.kind = "Timeout"
    /\ iteration.nlines = 2

(***************************************************************************)
(* Vocabulary of the extraction properties.                                *)
(***************************************************************************)
HasList(ln) == \E k \in 1..Len(ln) : ln[k] = "L"

\* The content of the first bracketed token of the line with one of the two
\* keys, up to its first closing bracket (the empty sequence if there is
\* no such token).
FirstBracketed(ln) ==
    LET Opens == {s \in 1..Len(ln) :
                    /\ ln[s] \in {"P", "Q", "N"}
                    /\ \E e \in (s + 1)..Len(ln) : ln[e] = "]"}
    IN  IF Opens = {} THEN << >>
        ELSE LET s == CHOOSE o \in Opens : \A o2 \in Opens : o <= o2
                 e == CHOOSE c \in (s + 1)..Len(ln) :
                        /\ ln[c] = "]"
                        /\ \A c2 \in (s + 1)..(c - 1) : ln[c2] # "]"
             IN  SubSeq(ln, s + 1, e - 1)

\* C25: the node name extracted with the substring pre-check is the node
\* name the three case-insensitive patterns extract without it; a line that
\* a pattern matches is never rejected by the pre-check.
C25_FastRejectPreservesOutcome ==
    extracted.done => extracted.node_name = MatchNodeName(raw_line)

\* C26: when neither the 'enter' nor the 'complete' pattern matches, a line
\* that holds list= or result.name= anywhere yields no node name; a node name
\* comes out of the general pattern only for lines free of both, and it is
\* the content of the first bracketed token up to its first closing bracket.
C26_Pattern3NegativeConstraint ==
    ( /\ extracted.done
      /\ ~node_patterns_start(raw_line).found
      /\ ~node_patterns_complete(raw_line).found )
    => /\ HasList(raw_line) => extracted.node_name = << >>
       /\ extracted.node_name # << >>
            => /\ ~HasList(raw_line)
               /\ extracted.node_name = strip(FirstBracketed(raw_line))

(***************************************************************************)
(* Properties of the events and of the runtime of the state machine.       *)
(***************************************************************************)
\* The rule a StateCompleted call names.
RuleNamed(state_name) == CHOOSE i \in Rules : states[i].name = state_name

\* C28: the elapsed_ms carried by every StateCompleted is the time of the
\* completing node minus the time of the rule's last activation.  A rule
\* whose start node is the completing node itself was activated by this very
\* observation, so its elapsed time is zero either way and it is left out.
C28_CompletionElapsed ==
    lastOp.kind = "node" =>
        \A k \in 1..Len(emitted) :
            ( /\ emitted[k].kind = "StateCompleted"
              /\ states[RuleNamed(emitted[k].state_name)].start_node # lastOp.node )
            => emitted[k].elapsed_ms
                 = lastOp.at - activated_at[RuleNamed(emitted[k].state_name)]

\* C30: in every reachable state an Idle rule has index 0 and an Active rule
\* has an index from 0 to len(transitions) - 1.
C30_RuntimeInvariant ==
    \A i \in Rules :
        /\ ~rt[i].is_active => rt[i].current_transition_index = 0
        /\ rt[i].is_active =>
             /\ 0 <= rt[i].current_transition_index
             /\ rt[i].current_transition_index < Len(states[i].transitions)

\* A rule that had advanced is Idle again while another rule waits for its
\* last target.
C30_Witness ==
    /\ \E i \in Rules :
         /\ prev[i].is_active /\ prev[i].current_transition_index > 0
         /\ ~rt[i].is_active
    /\ \E i \in Rules :
         /\ rt[i].is_active
         /\ rt[i].current_transition_index = Len(states[i].transitions) - 1

\* Two runtimes are the same when they agree on the phase and the index
\* of every rule and on the last_advance_time of every Active rule (the
\* field has no meaning for an Idle rule).
SameRuntime(run, run2) ==
    \A i \in Rules :
        /\ run[i].is_active = run2[i].is_active
        /\ run[i].current_transition_index = run2[i].current_transition_index
        /\ run[i].is_active => run[i].last_advance_time = run2[i].last_advance_time

C22_ExitCodes ==
    proc.pc = "exited" =>
        /\ proc.exit_code = 0 => proc.outcome \in {"stopped", "status"}
        /\ proc.outcome \in {"config_missing", "load_failed", "no_states",
                             "engine_create_failed", "engine_error"}
             => proc.exit_code = 1

\* The configuration the file declared is invalid: no log path, no state
\* rule, or a malformed rule line.
ConfigInvalid ==
    \/ config.log_file_path = ""
    \/ config.nlines = 0
    \/ config.malformed

\* C23: once the file has been read, an invalid configuration has made the
\* initialization fail: the process has exited with 1 and the engine was
\* neither constructed nor run.
C23_ConfigInvalidAborts ==
    (proc.pc # "load" /\ ConfigInvalid) =>
        /\ proc.pc = "exited" /\ proc.exit_code = 1
        /\ ~engine.constructed
        /\ ~engine.ran

\* C24: every rule handed to the engine has at least one transition, every
\* timeout is positive, and no two rules have the same name.
C24_DeclaredRuleInvariant ==
    \A j \in 1..Len(engine.rules) :
        /\ engine.rules[j].trans # << >>
        /\ \A n \in 1..Len(engine.rules[j].trans) : engine.rules[j].trans[n][2] > 0
        /\ \A j2 \in 1..Len(engine.rules) :
             j2 # j => engine.rules[j2].name # engine.rules[j].name

(***************************************************************************)
(* Properties of the delivery to the host.                                 *)
(***************************************************************************)
\* C21: when a platform raises under the delivery of an event, the runtime
\* after the iteration is the one a successful delivery leaves, every call
\* of the iteration is made (the remaining lines and the timeout pass are
\* processed), and the loop goes on to its next iteration.
C21_SinkFailureContained ==
    (lastOp.kind = "iteration" /\ delivery.raised) =>
        /\ rt = expected.run
        /\ sink = expected.events
        /\ now + MaxStep <= MaxTime => ENABLED IterateDelivering

\* A second iteration has run after one under which a platform raised, and
\* a platform raised again under an event of its first line while a later
\* line and the timeout pass made calls too.
C21_Witness ==
    /\ lastOp.kind = "iteration"
    /\ delivery.raised /\ delivery.after_raise
    /\ \E a, b \in 1..Len(sink) :
         /\ sink[a].src = 1 /\ sink[a].event.kind \in posted
         /\ sink[b].src = 2

\* C27: a send to a platform is attempted for an event only if its kind is
\* in the configured set, never for an engine-log event, and the runtime of
\* the state machine is the one it has without any filter.
C27_NotificationFilter ==
    /\ posted \subseteq notify_events
    /\ "EngineLog" \notin posted
    /\ rt = expected.run

\* An iteration under a NotifyWhen line made calls of a kind that is
\* notified and calls of a kind that is not.
C27_Witness ==
    /\ lastOp.kind = "iteration"
    /\ notify_when.given
    /\ posted # {}
    /\ \E a \in 1..Len(sink) : sink[a].event.kind \notin notify_events

\* C31: an observation of a node that is not an entry node, not rule i's
\* start_node and not the target rule i awaits leaves the rule's phase, index
\* and last_advance_time as they were and emits no event for it (so a later
\* target observed out of order does not advance the rule); an Idle rule is
\* changed by no node but its start_node.
C31_IrrelevantNodeFrame ==
    lastOp.kind = "node" =>
        \A i \in Rules :
            /\ ( /\ ~DeclaredEntry(lastOp.node)
                 /\ lastOp.node # states[i].start_node
                 /\ ~(prev[i].is_active /\ Awaited(i).target_node = lastOp.node) )
               => (rt[i] = prev[i] /\ NbEventsOf(i) = 0)
            /\ (~prev[i].is_active /\ lastOp.node # states[i].start_node)
               => (rt[i] = prev[i] /\ NbEventsOf(i) = 0)

\* The second target of a rule is observed while the rule awaits its first
\* target, and the rule stays where it was.
C31_Witness ==
    \E i \in Rules :
        /\ lastOp.kind = "node"
        /\ prev[i].is_active
        /\ prev[i].current_transition_index = 0
        /\ NbTransitions(i) = 2
        /\ lastOp.node = states[i].transitions[2].target_node
        /\ lastOp.node # Awaited(i).target_node
        /\ lastOp.node # states[i].start_node
        /\ ~DeclaredEntry(lastOp.node)
        /\ rt[i] = prev[i]
        /\ rt[i].last_advance_time < lastOp.at

\* The Timeout calls of the last iteration that name rule i.
TimeoutCalls(i) ==
    {a \in 1..Len(sink) : /\ sink[a].event.kind = "Timeout"
                          /\ sink[a].event.state_name = states[i].name}

\* C32: every iteration makes the timeout pass after its lines, whether or
\* not a line was read: no rule is left Active and overdue (and not exempt)
\* at the clock reading of an iteration; in an iteration without lines a rule
\* that is overdue is reported by one Timeout with its elapsed time and made
\* Idle, and every other rule is left alone; every Timeout call follows the
\* calls of the lines; and a rule whose awaited target is the line of the
\* iteration advances or completes and is not reported as timed out.
C32_TickEveryIteration ==
    lastOp.kind = "iteration" =>
        /\ \A i \in Rules : ~TimedOut(states[i], rt[i], iteration.at)
        /\ \A a \in 1..Len(sink) :
               (sink[a].event.kind = "Timeout") <=> (sink[a].src = iteration.nlines + 1)
        /\ iteration.nlines = 0 =>
              \A i \in Rules :
                  IF TimedOut(states[i], prev[i], iteration.at)
                  THEN /\ ~rt[i].is_active
                       /\ Cardinality(TimeoutCalls(i)) = 1
                       /\ \A a \in TimeoutCalls(i) :
                              sink[a].event.elapsed_ms
                                  = iteration.at - prev[i].last_advance_time
                  ELSE rt[i] = prev[i] /\ TimeoutCalls(i) = {}
        /\ iteration.nlines = 1 =>
              \A i \in Rules :
                  ( /\ prev[i].is_active
                    /\ Awaited(i).target_node = lastOp.node
                    /\ ~DeclaredEntry(lastOp.node)
                    /\ lastOp.node # states[i].start_node )
                  => (AdvancedOrCompleted(i) /\ TimeoutCalls(i) = {})

\* An iteration that read no line reported a rule as timed out.
C32_Witness ==
    /\ lastOp.kind = "iteration"
    /\ iteration.nlines = 0
    /\ \E i \in Rules : /\ prev[i].is_active
                        /\ ~rt[i].is_active
                        /\ TimeoutCalls(i) # {}

\* The byte position just after the last newline byte (0 if there is none).
LastNewlineByte(bytes) ==
    LET R[i \in 0..Len(bytes)] ==
            IF i = 0 THEN 0
            ELSE IF bytes[i] = "n" THEN i ELSE R[i - 1]
    IN  R[Len(bytes)]

\* The complete, non-blank lines of the whole file, read from byte 0.
CompleteLines(bytes) ==
    NonBlankLines(Decode(SubSeq(bytes, 1, LastNewlineByte(bytes))))

\* C33 (truncation step): a poll that starts with the file shorter than the
\* cursor is reported as a rotation, returns exactly the complete lines the
\* file now holds from byte 0 (nothing of what was held back before the
\* truncation is put in front of them, nothing is skipped), and leaves the
\* cursor inside the file, at or after the end of the last line it returned;
\* no rotation is reported when the file is not shorter than the cursor.
C33_TruncationStep ==
    poll.kind = "poll" =>
        /\ poll.rotated <=> (Len(file) < poll.before)
        /\ poll.rotated =>
              /\ poll.lines = CompleteLines(file)
              /\ log_file.open
              /\ log_file.pos <= Len(file)
              /\ log_file.pos >= LastNewlineByte(file)

\* The bytes of a partial line were held back when the file was truncated,
\* and the poll after the truncation found the file shorter than the cursor
\* and returned a line.
C33_Witness ==
    /\ poll.kind = "poll"
    /\ poll.rotated
    /\ origin.held > 0
    /\ poll.lines # << >>
    /\ log_file.pos < Len(file)

\* C34 (single engine loop): a call of start_monitoring made while is_running
\* is set returns False, and whatever the interleaving of the calls of
\* start_monitoring and stop_monitoring, at no time are two monitor threads
\* in the body of their loop (reading the log and driving the state machine).
C34_SingleEngineLoop ==
    /\ \A c \in Callers :
           start_hist[c].was_running => start_hist[c].result = "False"
    /\ Cardinality({i \in 1..MaxThreads : workers[i] = "body"}) <= 1

\* C35 (a shutdown request is never lost): once shutdown() has been called,
\* at whatever point after the construction of the service, run() eventually
\* returns (or main exits without calling it) with the engine told to stop
\* (or not running); and engine.stop() is called at most once in a run.
C35_ShutdownNeverLost ==
    /\ shut.requested ~>
           ( /\ service.pc \in {"returned", "exited"}
             /\ (shut.stop_calls >= 1 \/ engine_thread # "running") )
    /\ [](shut.stop_calls <= 1)

\* Whether a post to platform p delivers the notification.
Delivers(p) == answers[p] = "ok"

\* The platforms that are configured completely.
Configured ==
    {p \in Platforms :
        IF p = "telegram" THEN platforms_conf.bot_token /\ platforms_conf.chat_id
        ELSE platforms_conf.webhook_key}

\* C36 (notification fallback): the platforms are tried in an order that
\* starts with the default platform when it is available; each platform is
\* tried at most once; a platform of the order is tried if and only if every
\* platform before it failed to deliver, by an exception or by a rejected
\* response, so the sending stops at the first delivery; and the result is
\* success if and only if some platform delivered.
C36_NotificationFallback ==
    sent.done =>
        /\ platforms_conf.default_ext_notify \in Configured
              => (sent.order # << >>
                  /\ sent.order[1] = platforms_conf.default_ext_notify)
        /\ \A k \in 1..Len(sent.order) : \A k2 \in 1..Len(sent.order) :
               sent.order[k] = sent.order[k2] => k = k2
        /\ Len(sent.tried) <= Len(sent.order)
        /\ \A k \in 1..Len(sent.tried) : sent.tried[k] = sent.order[k]
        /\ \A k \in 1..Len(sent.order) :
               (k <= Len(sent.tried))
                   <=> (\A j \in 1..(k - 1) : ~Delivers(sent.order[j]))
        /\ sent.result
               <=> (\E k \in 1..Len(sent.tried) : Delivers(sent.tried[k]))

(***************************************************************************)
(* C37  The two [states] parsers agree.  For every value of a [states]     *)
(* key, written without braces or in surrounding braces, the parser of     *)
(* config.py and the parser of config_loader.py either both reject the     *)
(* line, or both produce a rule with the same start node, the same ordered *)
(* list of (target, timeout_ms) transitions and the same description.      *)
(***************************************************************************)
C37_ParsersAgree ==
    parsed.done =>
        \/ ~parsed.config_py.accepted /\ ~parsed.config_loader.accepted
        \/ /\ parsed.config_py.accepted /\ parsed.config_loader.accepted
           /\ parsed.config_py.start = parsed.config_loader.start
           /\ parsed.config_py.trans = parsed.config_loader.trans
           /\ parsed.config_py.desc = parsed.config_loader.desc

====
